---- MODULE Spec2Model ----
(***************************************************************************)
(* UDP time service (y0ncha/udp-time-app): the wire codec shared by the    *)
(* client and the server, the server's variable-length integer encoding    *)
(* and the client's decoding of it, the client's receive path, the         *)
(* server's per-endpoint lap timer, the server's receive / dispatch loop   *)
(* with its thirteen handlers, the city normalizers of both sides, the     *)
(* summer-time rules behind the city time, and the weekday helpers.        *)
(*                                                                         *)
(* Conventions.  A byte on the wire is a number 0..255 (the bit pattern of *)
(* a C++ char).  A string or a vector<char> is a sequence of bytes.  A     *)
(* uint32_t is a record [hi, lo] of two 16-bit halves, value               *)
(* hi * 65536 + lo, so that all 32 bits are kept.                          *)
(***************************************************************************)
EXTENDS Integers, Sequences, FiniteSets, TLC

VARIABLES
    \* codec: TimeClient::incode / TimeServer::decode
    c_pc,        \* "built" | "encoded" | "decoded"
    c_request,   \* the client's Request: [code, args]
    c_wire,      \* the datagram produced by incode
    s_request,   \* the server's decoded Request: [code, params]
    \* integer framing: toBytes (server) / toUint32 (client)
    i_pc,        \* "value" | "bytes" | "back" | "received"
    i_val,       \* the uint32_t handed to toBytes
    i_bytes,     \* toBytes(i_val)
    i_back,      \* toUint32(i_bytes)
    i_recv,      \* receiveResponse(uint32_t&) on the datagram i_bytes: [ok, response]
    \* client receive path: TimeClient::receiveResponse overloads
    r_pc,        \* "wait" | "done"
    r_in,        \* what recv delivers: [err, data]
    r_kind,      \* the overload called: "vec" | "str" | "u32"
    r_ok,        \* its return value
    r_out,       \* the response it stored (a byte sequence or a uint32_t)
    \* lap timer: MeasureTimeLap
    g_lap,       \* the table: a set of entries [key, at]
    steady,      \* std::chrono::steady_clock, in ticks
    l_advances,  \* how many times the clock has been advanced
    l_prev,      \* per endpoint, its latest MeasureTimeLap call: [at, reply]
    l_last,      \* the latest MeasureTimeLap call: [key, now, reply, before]
    \* server: TimeServer::run
    s_pc,        \* "receive" | "dispatch" | "crashed"
    request,     \* run()'s local Request: [code, params]
    clientAddr,  \* run()'s local sockaddr_in: the sender's endpoint
    received,    \* what recvfrom gave the latest receiveRequest: [ok, data, from]
    s_out,       \* the datagram the last dispatch handed to sendto, if any
    s_ok,        \* the value the last dispatch returned
    s_sends,     \* how many times sendto was called since the latest receiveRequest
    host,        \* the host at start: [wall, tick, zone]
    \* city normalization: normalize_city (server) / normalizeCity (client)
    n_pc,        \* "input" | "server" | "both" | "again"
    n_again,     \* the server's normalizer applied to the tokens, and the lookup
    n_in,        \* the string typed or received
    n_server,    \* normalize_city(n_in)
    n_client,    \* normalizeCity(n_in)
    \* summer-time rules and city time: is_dst_eu, is_dst_us_local_approx,
    \* time_in_city
    d_pc,        \* "now" | "eu" | "us" | "city"
    d_now,       \* std::time(nullptr): the UTC instant
    d_eu,        \* is_dst_eu(to_utc(d_now))
    d_us,        \* is_dst_us_local_approx(d_now + (-5) * 3600)
    d_city,      \* the city string handed to time_in_city
    d_time,      \* time_in_city(d_city)
    \* weekday helpers: nth_weekday_of_month, last_weekday_of_month
    w_pc,        \* "args" | "nth" | "last"
    w_in,        \* the arguments: [year, month, weekday, nth]
    w_nth,       \* nth_weekday_of_month(year, month, weekday, nth)
    w_last,      \* last_weekday_of_month(year, month, weekday)
    \* delay estimation: calcAvgDifference
    a_pc,        \* "samples" | "done"
    a_samples,   \* the vector of uint32_t samples
    a_avg,       \* the double returned, as the exact quotient [num, den]
    \* MeasureTimeLap called from several threads: per thread
    m_pc,        \* "idle" | "called" | "lock" | "sweep" | "find" | "insert" | "erase" | "unlock"
    m_key,       \* the local key
    m_now,       \* the local now
    m_it,        \* the local it: the entry found
    m_reply,     \* the string the latest call returned
    m_calls,     \* how many calls the thread has made
    m_swept,     \* the table as the thread's sweep left it
    g_lap_mx,    \* the mutex: the thread that holds it, or NoThread
    \* client: TimeClient::run and its operations, with the network
    k_pc,        \* "menu" | "send" | "recv"
    k_op,        \* the operation chosen last: [code, i, sends, recvs, result, city,
                 \* clean, lost0]
    k_ops,       \* how many operations have been started
    k_last,      \* the datagram recv delivered last: [by, of], the operation
                 \* that received it and the operation whose request it answers
    net_req,     \* requests on their way to the server: [op, data]
    net_resp,    \* what waits in the client's socket: [op, err, data]
    net_lost,    \* how many datagrams the network has lost
    net_errs,    \* how many socket errors have been queued for recv
    \* the loop of TimeServer::decode, step by step
    p_pc,        \* "start" | "outer" | "inner" | "done"
    p_req,       \* the datagram
    p_i,         \* i
    p_start,     \* start
    p_result,    \* result
    p_reads      \* the indices at which req has been read

codecVars == <<c_pc, c_request, c_wire, s_request>>
intVars == <<i_pc, i_val, i_bytes, i_back, i_recv>>
recvVars == <<r_pc, r_in, r_kind, r_ok, r_out>>
lapVars == <<g_lap, steady, l_advances, l_prev, l_last>>
srvVars == <<s_pc, request, clientAddr, received, s_out, s_ok, s_sends, host>>
cityVars == <<n_pc, n_in, n_server, n_client, n_again>>
tzVars == <<d_pc, d_now, d_eu, d_us, d_city, d_time>>
wdVars == <<w_pc, w_in, w_nth, w_last>>
avgVars == <<a_pc, a_samples, a_avg>>
mtVars == <<m_pc, m_key, m_now, m_it, m_reply, m_calls, m_swept, g_lap_mx>>
cliVars == <<k_pc, k_op, k_ops, k_last, net_req, net_resp, net_lost, net_errs>>
scanVars == <<p_pc, p_req, p_i, p_start, p_result, p_reads>>
vars == <<codecVars, intVars, recvVars, lapVars, srvVars, cityVars, tzVars, wdVars, avgVars, mtVars, cliVars, scanVars>>

(***************************************************************************)
(* Bounds of the model.                                                    *)
(***************************************************************************)
\* parameters of a request, characters of a parameter, bytes of a datagram
MaxParams == 2
MaxStrLen == 2
MaxDgramLen == 5
\* steps of the steady clock in a behaviour, and its ticks per second
MaxAdvances == 2
TicksPerSec == 2
\* samples handed to calcAvgDifference
MaxSamples == 3
\* concurrent MeasureTimeLap: calls per thread, steps of the clock
MaxCalls == 2
MaxTicks == 1
\* client: requests of a burst (100 in the code), operations of a session,
\* datagrams lost, socket errors
BurstLen == 2
MaxOps == 2
MaxLost == 1
MaxErrors == 1

(***************************************************************************)
(* Bytes, chars and request codes.                                         *)
(***************************************************************************)
Byte == 0..255

\* enum class ReqCode : char { Error = -1, Default = 0, GetTime, ... }
Error == -1
Default == 0
GetTime == 1
GetTimeWithoutDate == 2
GetTimeSinceEpoch == 3
GetClientToServerDelayEstimation == 4
MeasuureRTT == 5
GetTimeWithoutDateOrSeconds == 6
GetYear == 7
GetMonthAndDay == 8
GetSecondsSinceBeginningOfMonth == 9
GetWeekOfYear == 10
GetDaylightSavings == 11
GetTimeWithoutDateInCity == 12
MeasureTimeLap == 13

\* The enumerators of ReqCode.
ReqCodes == Error..MeasureTimeLap

\* static_cast<char>(code): the bit pattern of a (signed) char.
CharToByte(c) == IF c < 0 THEN c + 256 ELSE c

\* static_cast<ReqCode>(byte): the (signed) char value of a bit pattern.
ByteToChar(b) == IF b >= 128 THEN b - 256 ELSE b

(***************************************************************************)
(* TimeClient::incode                                                      *)
(***************************************************************************)
RECURSIVE incodeArgs(_, _)
\* the for loop over request_.args, from the k-th argument on
incodeArgs(args, k) ==
    IF k > Len(args) THEN <<>>
    ELSE <<0>> \o args[k] \o incodeArgs(args, k + 1)

incode(request_) ==
    <<CharToByte(request_.code)>> \o incodeArgs(request_.args, 1)

(***************************************************************************)
(* TimeServer::decode.  Indices i, start are the code's 0-based indices;   *)
(* req[i] of the code is req[i + 1] here.                                  *)
(***************************************************************************)
RECURSIVE RunEnd(_, _)
\* while (i < req.size() && req[i] != '\0') ++i;
RunEnd(req, i) ==
    IF i < Len(req) /\ req[i + 1] # 0 THEN RunEnd(req, i + 1) ELSE i

RECURSIVE decodeScan(_, _, _)
\* while (i < req.size()) { ... }
decodeScan(req, i, params) ==
    IF ~(i < Len(req)) THEN params
    ELSE IF req[i + 1] = 0
         THEN LET start == i + 1
                  stop == RunEnd(req, start)
              IN  decodeScan(req, stop,
                             IF start < Len(req)
                             THEN Append(params, SubSeq(req, start + 1, stop))
                             ELSE params)
         ELSE decodeScan(req, i + 1, params)

\* decode without the test for an empty datagram (a variant, for comparison)
decodeEmptyAsDefault(req) ==
    [code |-> IF req = <<>> THEN Default ELSE ByteToChar(req[1]),
     params |-> decodeScan(req, 1, <<>>)]

decode(req) ==
    [code |-> IF req = <<>> THEN Error ELSE ByteToChar(req[1]),
     params |-> decodeScan(req, 1, <<>>)]

(***************************************************************************)
(* uint32_t values.                                                        *)
(***************************************************************************)
U32(hi, lo) == [hi |-> hi, lo |-> lo]
U32Zero == U32(0, 0)

\* memcpy without htonl on a little-endian host (a variant, for comparison)
HostBytes(val) ==
    <<val.lo % 256, val.lo \div 256, val.hi % 256, val.hi \div 256>>

\* htonl(val) followed by memcpy(buf, &netVal, 4): the four bytes of val,
\* most significant first.
NetBytes(val) ==
    <<val.hi \div 256, val.hi % 256, val.lo \div 256, val.lo % 256>>

\* memcpy(&val, buf, 4) followed by ntohl(val)
FromNetBytes(buf) ==
    U32(buf[1] * 256 + buf[2], buf[3] * 256 + buf[4])

RECURSIVE SkipZeros(_, _)
\* while (start < sizeof(buf) && buf[start] == 0) ++start;
SkipZeros(buf, start) ==
    IF start < Len(buf) /\ buf[start + 1] = 0
    THEN SkipZeros(buf, start + 1)
    ELSE start

\* Server: std::vector<char> toBytes(uint32_t val)
toBytes(val) ==
    LET buf == NetBytes(val)
        start == SkipZeros(buf, 0)
    IN  SubSeq(buf, start + 1, Len(buf))

\* a padding slip: the bytes are copied to the front of buf
PadNoOffset(bytes) == 0

\* the left padding of toUint32: offset = bytes.size() < 4 ? 4 - size : 0
PadOffset(bytes) == IF Len(bytes) < 4 THEN 4 - Len(bytes) ELSE 0

\* Client: uint32_t toUint32(const std::vector<char>& bytes)
toUint32(bytes) ==
    IF Len(bytes) > 4 \/ bytes = <<>>
    THEN U32Zero
    ELSE LET offset == PadOffset(bytes)
             buf == [k \in 1..4 |->
                       IF k > offset /\ k - offset <= Len(bytes)
                       THEN bytes[k - offset] ELSE 0]
         IN  FromNetBytes(buf)

\* TimeClient::isError
isError(response) ==
    response = <<>> \/ ByteToChar(response[1]) = Error

\* The receive buffer after recv: std::vector<char> recvBuff(BUFFER_SIZE),
\* zero-filled, with the datagram copied to its front.
BUFFER_SIZE == 255
RecvBuffAfter(data) ==
    [k \in 1..BUFFER_SIZE |-> IF k <= Len(data) THEN data[k] ELSE 0]

\* TimeClient::receiveResponse(std::vector<char>&).  in.err: recv returned
\* SOCKET_ERROR; otherwise in.data is the datagram and bytesRecv its length.
\* isError is applied to recvBuff before it is resized to bytesRecv.
receiveResponseVec(in) ==
    LET recvBuff == RecvBuffAfter(in.data)
        bytesRecv == Len(in.data)
    IN  IF in.err \/ isError(recvBuff)
        THEN [ok |-> FALSE, response |-> <<>>]
        ELSE [ok |-> TRUE, response |-> SubSeq(recvBuff, 1, bytesRecv)]

\* TimeClient::receiveResponse(std::string&)
receiveResponseStr(in) ==
    LET r == receiveResponseVec(in)
    IN  IF ~r.ok THEN [ok |-> FALSE, response |-> <<>>]
        ELSE [ok |-> TRUE, response |-> r.response]

\* TimeClient::receiveResponse(uint32_t&); sizeof(uint32_t) is 4
receiveResponseU32(in) ==
    LET r == receiveResponseVec(in)
    IN  IF ~r.ok THEN [ok |-> FALSE, response |-> U32Zero]
        ELSE IF Len(r.response) > 4 THEN [ok |-> FALSE, response |-> U32Zero]
        ELSE [ok |-> TRUE, response |-> toUint32(r.response)]

(***************************************************************************)
(* calcAvgDifference (Client/utils.cpp).  A double holds every integer     *)
(* below 2^53 exactly, so the running sum is an integer, kept as           *)
(* [hi, lo] = hi * 65536 + lo with lo < 65536 and hi unbounded.  The       *)
(* quotient returned is the pair [num, den].                               *)
(***************************************************************************)
\* a - b as a signed difference that is not reduced modulo 2^32 (a
\* variant, for comparison)
SubSigned(a, b) ==
    LET lo == a.lo - b.lo
        borrow == IF lo < 0 THEN 1 ELSE 0
    IN  [hi |-> a.hi - b.hi - borrow, lo |-> lo % 65536]

\* a - b in uint32_t arithmetic
SubU32(a, b) ==
    LET lo == a.lo - b.lo
        borrow == IF lo < 0 THEN 1 ELSE 0
    IN  U32((a.hi - b.hi - borrow) % 65536, lo % 65536)

\* sum += static_cast<double>(d)
AddToSum(sum, d) ==
    [hi |-> sum.hi + d.hi + ((sum.lo + d.lo) \div 65536),
     lo |-> (sum.lo + d.lo) % 65536]

RECURSIVE SumDifferences(_, _, _)
\* for (int i = 1; i < samples.size(); ++i) sum += double(samples[i] - samples[i - 1]);
\* i is the code's 0-based index
SumDifferences(samples, i, sum) ==
    IF ~(i < Len(samples)) THEN sum
    ELSE SumDifferences(samples, i + 1,
                        AddToSum(sum, SubU32(samples[i + 1], samples[i])))

\* a divisor that counts the samples instead of the differences
AvgCountAll(samples) == Len(samples)

\* samples.size() - 1
AvgCount(samples) == Len(samples) - 1

\* 0.0
DoubleZero == [num |-> [hi |-> 0, lo |-> 0], den |-> 1]

\* double calcAvgDifference(const std::vector<uint32_t>& samples)
calcAvgDifference(samples) ==
    IF Len(samples) < 2 THEN DoubleZero
    ELSE [num |-> SumDifferences(samples, 1, [hi |-> 0, lo |-> 0]),
          den |-> AvgCount(samples)]

(***************************************************************************)
(* The lap timer (Server/utils.h).                                         *)
(***************************************************************************)
\* struct EndpointKey { unsigned long addr_be; unsigned short port_be; }
EndpointKey(addr, port) == [addr_be |-> addr, port_be |-> port]

\* an equality that forgets the port
EndpointKeyEqAddrOnly(a, b) == a.addr_be = b.addr_be

\* operator==(const EndpointKey&, const EndpointKey&)
EndpointKeyEq(a, b) == a.addr_be = b.addr_be /\ a.port_be = b.port_be

\* the expiry window of MeasureTimeLap, in seconds
LapExpirySeconds == 180

\* std::chrono::duration_cast<std::chrono::seconds>(now - at).count():
\* the whole seconds of the difference, truncated toward zero
ElapsedSeconds(now, at) ==
    IF now >= at THEN (now - at) \div TicksPerSec
    ELSE -((at - now) \div TicksPerSec)

\* a sweep that removes nothing
ExpiredNever(elapsed) == FALSE

\* a sweep whose window is a second too long
ExpiredLate(elapsed) == elapsed > LapExpirySeconds + 1

\* if (elapsed > 180) it = g_lap.erase(it);
Expired(elapsed) == elapsed > LapExpirySeconds

\* a call that skips the sweep
SweepNothing(tbl, now) == tbl

\* the expiry sweep: the entries that survive it
Sweep(tbl, now) == {e \in tbl : ~Expired(ElapsedSeconds(now, e.at))}

\* g_lap.find(key): the entries whose key compares equal (at most one)
Find(tbl, key) == {e \in tbl : EndpointKeyEq(e.key, key)}

\* an erase that is forgotten
LapEraseNothing(tbl, it) == tbl

\* g_lap.erase(it)
LapErase(tbl, it) == tbl \ {it}

RECURSIVE DecDigits(_)
\* operator<<(int) for a value >= 0: its decimal digits as characters
DecDigits(n) ==
    IF n < 10 THEN <<48 + n>> ELSE DecDigits(n \div 10) \o <<48 + (n % 10)>>

\* os << std::setfill('0') << std::setw(2) << n
Pad2(n) == IF Len(DecDigits(n)) < 2 THEN <<48>> \o DecDigits(n) ELSE DecDigits(n)

\* operator<<(int) under setfill('0') and setw(2): a negative value is
\* printed with its sign, which takes one of the two columns
PadInt2(n) == IF n < 0 THEN <<45>> \o DecDigits(-n) ELSE Pad2(n)

\* sec / 60 of the code: the quotient is truncated toward zero
LapMinutes(sec) == IF sec >= 0 THEN sec \div 60 ELSE -((-sec) \div 60)

\* minutes = sec / 60, seconds = sec % 60, printed as MM:SS
FormatLap(sec) ==
    PadInt2(LapMinutes(sec)) \o <<58>> \o PadInt2(sec - 60 * LapMinutes(sec))

\* "Timer started"
TimerStarted == <<84, 105, 109, 101, 114, 32, 115, 116, 97, 114, 116, 101, 100>>

\* std::string MeasureTimeLap(addr, port), with now = clock::now():
\* the reply and the table it leaves
MeasureTimeLapCall(tbl, key, now) ==
    LET swept == Sweep(tbl, now)
        found == Find(swept, key)
    IN  IF found = {}
        THEN [reply |-> TimerStarted,
              table |-> swept \cup {[key |-> key, at |-> now]}]
        ELSE LET it == CHOOSE e \in found : TRUE
                 sec == ElapsedSeconds(now, it.at)
             IN  [reply |-> FormatLap(sec), table |-> LapErase(swept, it)]

\* std::mutex g_lap_mx when no thread holds it
NoThread == 0

\* a lock that is granted whoever holds the mutex
MutexIgnored(mx) == TRUE

\* std::lock_guard<std::mutex> lk(g_lap_mx) returns when the mutex is free
MutexFree(mx) == mx = NoThread

(***************************************************************************)
(* Calendar arithmetic of the C runtime (gmtime_s, localtime_s, mktime,    *)
(* strftime), proleptic Gregorian.  A time_t is a number of seconds since  *)
(* 1970-01-01T00:00:00Z.  The host's time zone is a record [off, dst]: its *)
(* offset east of UTC in seconds and the tm_isdst flag localtime_s sets.   *)
(***************************************************************************)
\* days from 1970-01-01 to the day d of the month mp (0 = March, ...,
\* 11 = February) of the March-based year yy
DaysFromShifted(yy, mp, d) ==
    LET yoe == yy % 400
    IN  (yy \div 400) * 146097 + yoe * 365 + (yoe \div 4) - (yoe \div 100)
        + ((153 * mp + 2) \div 5) + d - 1 - 719468

\* days from 1970-01-01 to the civil date y-m-d (m in 1..12)
DaysFromCivil(y, m, d) ==
    DaysFromShifted(IF m <= 2 THEN y - 1 ELSE y, IF m > 2 THEN m - 3 ELSE m + 9, d)

\* the civil date of the day doy (0 = 1 March) of the March-based year yy,
\* which falls in the month mp (0 = March)
CivilFromMp(yy, doy, mp) ==
    [year |-> IF mp < 10 THEN yy ELSE yy + 1,
     mon |-> IF mp < 10 THEN mp + 3 ELSE mp - 9,
     mday |-> doy - ((153 * mp + 2) \div 5) + 1]

CivilFromDoy(yy, doy) == CivilFromMp(yy, doy, (5 * doy + 2) \div 153)

CivilFromYoe(era, doe, yoe) ==
    CivilFromDoy(yoe + era * 400, doe - (365 * yoe + (yoe \div 4) - (yoe \div 100)))

CivilFromDoe(era, doe) ==
    CivilFromYoe(era, doe,
        (doe - (doe \div 1460) + (doe \div 36524) - (doe \div 146096)) \div 365)

\* the civil date of a day number
CivilFromDays(z) == CivilFromDoe((z + 719468) \div 146097, (z + 719468) % 146097)

\* the struct tm of second sod of day number days, whose civil date is c
TmOf(days, sod, c) ==
    [tm_sec |-> sod % 60, tm_min |-> (sod \div 60) % 60,
     tm_hour |-> sod \div 3600, tm_mday |-> c.mday, tm_mon |-> c.mon - 1,
     tm_year |-> c.year - 1900, tm_wday |-> (days + 4) % 7,
     tm_yday |-> days - DaysFromCivil(c.year, 1, 1), tm_isdst |-> 0]

\* gmtime_s: the struct tm of a time_t
gmtime(t) == TmOf(t \div 86400, t % 86400, CivilFromDays(t \div 86400))

\* static std::tm to_utc(std::time_t t)
to_utc(t) == gmtime(t)

\* static std::tm to_local(std::time_t t), on a host in time zone zone
to_local(t, zone) ==
    [gmtime(t + zone.off) EXCEPT !.tm_isdst = IF zone.dst THEN 1 ELSE 0]

\* std::tm tm{}
TmZero ==
    [tm_sec |-> 0, tm_min |-> 0, tm_hour |-> 0, tm_mday |-> 0, tm_mon |-> 0,
     tm_year |-> 0, tm_wday |-> 0, tm_yday |-> 0, tm_isdst |-> 0]

\* the local seconds since 1970-01-01T00:00:00 local that the fields of tm
\* denote; tm_mon and tm_mday may lie outside their ranges
TmLocalSeconds(tm) ==
    LET months == (tm.tm_year + 1900) * 12 + tm.tm_mon
        days == DaysFromCivil(months \div 12, (months % 12) + 1, 1) + tm.tm_mday - 1
    IN  days * 86400 + tm.tm_hour * 3600 + tm.tm_min * 60 + tm.tm_sec

\* mktime(&tm): tm as it is left, normalised
mktimeTm(tm) == [gmtime(TmLocalSeconds(tm)) EXCEPT !.tm_isdst = tm.tm_isdst]

\* mktime(&tm): the time_t returned
mktime(tm, zone) == TmLocalSeconds(tm) - zone.off

\* static_cast<uint32_t>(n) for 0 <= n
ToU32(n) == U32((n \div 65536) % 65536, n % 65536)

\* strftime conversions %d %m %H %M %S %U: two digits
Fmt2(n) == Pad2(n)

\* fmt_tm(tm, "%H:%M:%S")
FmtHMS(tm) ==
    Fmt2(tm.tm_hour) \o <<58>> \o Fmt2(tm.tm_min) \o <<58>> \o Fmt2(tm.tm_sec)

\* fmt_tm(tm, "%H:%M")
FmtHM(tm) == Fmt2(tm.tm_hour) \o <<58>> \o Fmt2(tm.tm_min)

\* fmt_tm(tm, "%Y")
FmtY(tm) == DecDigits(tm.tm_year + 1900)

\* fmt_tm(tm, "%d/%m")
FmtDM(tm) == Fmt2(tm.tm_mday) \o <<47>> \o Fmt2(tm.tm_mon + 1)

\* fmt_tm(tm, "%d/%m/%Y %H:%M:%S")
FmtDateTime(tm) == FmtDM(tm) \o <<47>> \o FmtY(tm) \o <<32>> \o FmtHMS(tm)

\* strftime %U: the Sunday-based week of the year, 00..53
FmtU(tm) == Fmt2((tm.tm_yday + 7 - tm.tm_wday) \div 7)

RECURSIVE atoi(_)
\* std::atoi on a string of digits
atoi(str) ==
    IF str = <<>> THEN 0
    ELSE atoi(SubSeq(str, 1, Len(str) - 1)) * 10 + (str[Len(str)] - 48)

\* static uint32_t seconds_since_month_start(std::time_t now)
seconds_since_month_start(now, zone) ==
    LET tm == [to_local(now, zone) EXCEPT !.tm_mday = 1, !.tm_hour = 0,
                                          !.tm_min = 0, !.tm_sec = 0]
    IN  ToU32(now - mktime(tm, zone))

\* static uint32_t week_of_year(std::time_t now)
week_of_year(now, zone) == ToU32(atoi(FmtU(to_local(now, zone))))

(***************************************************************************)
(* City names and time zones.                                              *)
(***************************************************************************)
Str_doha == <<100, 111, 104, 97>>
Str_prague == <<112, 114, 97, 103, 117, 101>>
Str_new_york == <<110, 101, 119, 45, 121, 111, 114, 107>>
Str_newyork == <<110, 101, 119, 121, 111, 114, 107>>
Str_new_space_york == <<110, 101, 119, 32, 121, 111, 114, 107>>
Str_berlin == <<98, 101, 114, 108, 105, 110>>
Str_utc == <<117, 116, 99>>

\* std::isspace in the "C" locale: \t \n \v \f \r and the space
isspace(c) == c \in 9..13 \/ c = 32

\* std::tolower in the "C" locale
tolower(c) == IF c \in 65..90 THEN c + 32 ELSE c

RECURSIVE TrimFront(_)
\* s.erase(s.begin(), find_if(s.begin(), s.end(), not_space))
TrimFront(str) ==
    IF str # <<>> /\ isspace(str[1]) THEN TrimFront(Tail(str)) ELSE str

RECURSIVE TrimBack(_)
\* s.erase(find_if(s.rbegin(), s.rend(), not_space).base(), s.end())
TrimBack(str) ==
    IF str # <<>> /\ isspace(str[Len(str)])
    THEN TrimBack(SubSeq(str, 1, Len(str) - 1)) ELSE str

\* std::transform(..., tolower); std::replace(..., ' ', '-')
LowerHyphen(t) ==
    [k \in 1..Len(t) |-> IF tolower(t[k]) = 32 THEN 45 ELSE tolower(t[k])]

\* static std::string trim_lower(std::string s): trim, lower-case, then
\* replace every space by a hyphen
trim_lower(str) == LowerHyphen(TrimBack(TrimFront(str)))

\* the chain with a final else that keeps the input (a variant, for
\* comparison)
CanonicalCityOrSelf(city) ==
    IF city = Str_doha \/ city = <<49>> THEN Str_doha
    ELSE IF city = Str_prague \/ city = <<50>> THEN Str_prague
    ELSE IF city = Str_new_york \/ city = Str_newyork
              \/ city = Str_new_space_york \/ city = <<51>>
         THEN Str_new_york
    ELSE IF city = Str_berlin \/ city = <<52>> THEN Str_berlin
    ELSE city

\* the if / else if chain of normalize_city on the trimmed string
CanonicalCity(city) ==
    IF city = Str_doha \/ city = <<49>> THEN Str_doha
    ELSE IF city = Str_prague \/ city = <<50>> THEN Str_prague
    ELSE IF city = Str_new_york \/ city = Str_newyork
              \/ city = Str_new_space_york \/ city = <<51>>
         THEN Str_new_york
    ELSE IF city = Str_berlin \/ city = <<52>> THEN Str_berlin
    ELSE Str_utc

\* std::string normalize_city(std::string& city_)
normalize_city(city_) == CanonicalCity(trim_lower(city_))

(***************************************************************************)
(* The client's copy of the normalizer (src/Client/utils.cpp).             *)
(***************************************************************************)
RECURSIVE EraseLeadingSpace(_)
\* s.erase(s.begin(), std::find_if(s.begin(), s.end(), not_space))
EraseLeadingSpace(s) ==
    IF s = <<>> THEN s
    ELSE IF isspace(Head(s)) THEN EraseLeadingSpace(Tail(s)) ELSE s

RECURSIVE EraseTrailingSpace(_)
\* s.erase(std::find_if(s.rbegin(), s.rend(), not_space).base(), s.end())
EraseTrailingSpace(s) ==
    IF s = <<>> THEN s
    ELSE IF isspace(s[Len(s)]) THEN EraseTrailingSpace(SubSeq(s, 1, Len(s) - 1))
    ELSE s

\* a transform that forgets std::tolower (a variant, for comparison)
TransformReplaceKeepCase(s) ==
    [k \in 1..Len(s) |-> IF s[k] = 32 THEN 45 ELSE s[k]]

\* std::transform(..., std::tolower); std::replace(..., ' ', '-')
TransformReplace(s) ==
    [k \in 1..Len(s) |-> IF tolower(s[k]) = 32 THEN 45 ELSE tolower(s[k])]

\* static std::string trimLower(std::string s)
trimLower(s) == TransformReplace(EraseTrailingSpace(EraseLeadingSpace(s)))

\* the if / else if chain of normalizeCity on the trimmed string
normalizeCityChain(city) ==
    IF city = <<100, 111, 104, 97>> \/ city = <<49>>
    THEN <<100, 111, 104, 97>>
    ELSE IF city = <<112, 114, 97, 103, 117, 101>> \/ city = <<50>>
    THEN <<112, 114, 97, 103, 117, 101>>
    ELSE IF city = <<110, 101, 119, 45, 121, 111, 114, 107>>
              \/ city = <<110, 101, 119, 121, 111, 114, 107>>
              \/ city = <<110, 101, 119, 32, 121, 111, 114, 107>>
              \/ city = <<51>>
    THEN <<110, 101, 119, 45, 121, 111, 114, 107>>
    ELSE IF city = <<98, 101, 114, 108, 105, 110>> \/ city = <<52>>
    THEN <<98, 101, 114, 108, 105, 110>>
    ELSE <<117, 116, 99>>

\* a normalizeCity without its if / else if chain
normalizeCityTrimOnly(city_) == trimLower(city_)

\* std::string normalizeCity(std::string& city_)
normalizeCity(city_) == normalizeCityChain(trimLower(city_))

RECURSIVE ReadWord(_)
\* the characters operator>> stores: up to the next white space
ReadWord(s) ==
    IF s = <<>> \/ isspace(Head(s)) THEN <<>>
    ELSE <<Head(s)>> \o ReadWord(Tail(s))

\* std::cin >> city on the typed line: leading white space is skipped and
\* one word is read (city stays empty when there is none)
CinWord(line) == ReadWord(EraseLeadingSpace(line))

\* std::string promptCity(), the user typing line
promptCity(line) == normalizeCity(CinWord(line))

\* 1 + ((7 + weekday - first) % 7) + (nth - 1) * 7
NthFromFirst(first, weekday, nth) ==
    1 + ((7 + weekday - first) % 7) + (nth - 1) * 7

\* static int nth_weekday_of_month(int year, int month, int weekday, int nth)
nth_weekday_of_month(year, month, weekday, nth) ==
    NthFromFirst(mktimeTm([TmZero EXCEPT !.tm_year = year - 1900,
                                         !.tm_mon = month - 1,
                                         !.tm_mday = 1]).tm_wday,
                 weekday, nth)

\* delta with its operands exchanged (a variant, for comparison)
LastFromFirstSlip(last_dom, first, weekday) ==
    last_dom - ((7 + weekday - ((first + (last_dom - 1)) % 7)) % 7)

\* last_weekday_of_month from last_dom and first on
LastFromFirst(last_dom, first, weekday) ==
    LET last_wd == (first + (last_dom - 1)) % 7
        delta == (7 + last_wd - weekday) % 7
    IN  last_dom - delta

\* last_weekday_of_month after its first mktime, which left tm
LastFromTm(tm, weekday) ==
    LastFromFirst(tm.tm_mday, mktimeTm([tm EXCEPT !.tm_mday = 1]).tm_wday, weekday)

\* static int last_weekday_of_month(int year, int month, int weekday)
last_weekday_of_month(year, month, weekday) ==
    LastFromTm(mktimeTm([TmZero EXCEPT !.tm_year = year - 1900,
                                       !.tm_mon = month, !.tm_mday = 0]),
               weekday)

\* a window that opens and closes at midnight (a variant, for comparison)
WindowEUAtMidnight(start, end, mon, day, h) ==
    IF mon < 3 \/ mon > 10 THEN FALSE
    ELSE IF mon > 3 /\ mon < 10 THEN TRUE
    ELSE IF mon = 3 THEN day >= start
    ELSE day < end

\* the four returns of is_dst_eu
WindowEU(start, end, mon, day, h) ==
    IF mon < 3 \/ mon > 10 THEN FALSE
    ELSE IF mon > 3 /\ mon < 10 THEN TRUE
    ELSE IF mon = 3 THEN (day > start) \/ (day = start /\ h >= 1)
    ELSE IF mon = 10 THEN (day < end) \/ (day = end /\ h < 1)
    ELSE FALSE

\* static bool is_dst_eu(const std::tm& utc)
is_dst_eu(utc) ==
    WindowEU(last_weekday_of_month(utc.tm_year + 1900, 3, 0),
             last_weekday_of_month(utc.tm_year + 1900, 10, 0),
             utc.tm_mon + 1, utc.tm_mday, utc.tm_hour)

\* a window that opens and closes at 01:00 (a variant, for comparison)
WindowUSAtOne(start, end, mon, day, h) ==
    IF mon < 3 \/ mon > 11 THEN FALSE
    ELSE IF mon > 3 /\ mon < 11 THEN TRUE
    ELSE IF mon = 3 THEN (day > start) \/ (day = start /\ h >= 1)
    ELSE (day < end) \/ (day = end /\ h < 1)

\* the four returns of is_dst_us_local_approx
WindowUS(start, end, mon, day, h) ==
    IF mon < 3 \/ mon > 11 THEN FALSE
    ELSE IF mon > 3 /\ mon < 11 THEN TRUE
    ELSE IF mon = 3 THEN (day > start) \/ (day = start /\ h >= 2)
    ELSE IF mon = 11 THEN (day < end) \/ (day = end /\ h < 2)
    ELSE FALSE

\* is_dst_us_local_approx on t = to_utc(now_local_base)
DstUSOfTm(t) ==
    WindowUS(nth_weekday_of_month(t.tm_year + 1900, 3, 0, 2),
             nth_weekday_of_month(t.tm_year + 1900, 11, 0, 1),
             t.tm_mon + 1, t.tm_mday, t.tm_hour)

\* static bool is_dst_us_local_approx(std::time_t now_local_base)
is_dst_us_local_approx(now_local_base) == DstUSOfTm(to_utc(now_local_base))

\* kCitiesExt: the entry of a city, if any
kCitiesExt(city) ==
    CASE city = Str_prague -> [found |-> TRUE, base_utc_hours |-> 1, has_dst |-> TRUE, rule |-> "EU"]
      [] city = Str_berlin -> [found |-> TRUE, base_utc_hours |-> 1, has_dst |-> TRUE, rule |-> "EU"]
      [] city = Str_new_york -> [found |-> TRUE, base_utc_hours |-> -5, has_dst |-> TRUE, rule |-> "US"]
      [] city = Str_doha -> [found |-> TRUE, base_utc_hours |-> 3, has_dst |-> FALSE, rule |-> "None"]
      [] city = Str_utc -> [found |-> TRUE, base_utc_hours |-> 0, has_dst |-> FALSE, rule |-> "None"]
      [] OTHER -> [found |-> FALSE, base_utc_hours |-> 0, has_dst |-> FALSE, rule |-> "None"]

\* an offset without summer time (a variant, for comparison)
CityOffsetBase(it, now, utc_tm) == it.base_utc_hours

\* int offset = it->second.base_utc_hours, plus one hour in summer time
CityOffset(it, now, utc_tm) ==
    IF it.has_dst /\ it.rule = "EU" /\ is_dst_eu(utc_tm)
    THEN it.base_utc_hours + 1
    ELSE IF it.has_dst /\ it.rule = "US"
              /\ is_dst_us_local_approx(now + it.base_utc_hours * 3600)
    THEN it.base_utc_hours + 1
    ELSE it.base_utc_hours

\* time_in_city from the lookup in kCitiesExt on
TimeInCityTz(it, now, utc_tm) ==
    IF ~it.found THEN FmtHMS(utc_tm)
    ELSE FmtHMS(to_utc(now + CityOffset(it, now, utc_tm) * 3600))

\* static std::string time_in_city(std::string city), with now = time(nullptr)
time_in_city(city_, now) ==
    TimeInCityTz(kCitiesExt(normalize_city(city_)), now, to_utc(now))

(***************************************************************************)
(* The host's clocks and the handlers behind TimeServer::dispatch.         *)
(***************************************************************************)
\* std::time(nullptr) on host h once the steady clock has run for ticks
WallNow(h, ticks) == h.wall + (ticks \div TicksPerSec)

\* u + n as a uint32_t
AddU32(u, n) ==
    LET lo == u.lo + (n % 65536)
        hi == u.hi + (n \div 65536) + (lo \div 65536)
    IN  U32(hi % 65536, lo % 65536)

\* GetTickCount(): milliseconds since the host started, modulo 2^32
TickCountNow(h, ticks) == AddU32(h.tick, (ticks * 1000) \div TicksPerSec)

\* Request request;
DefaultRequest == [code |-> Error, params |-> <<>>]

\* what a handler gives sendResponse: a string, or a uint32_t and its
\* toBytes, together with the lap table the handler leaves
StringResponse(str, tbl) ==
    [kind |-> "string", bytes |-> str, value |-> U32Zero, table |-> tbl]

IntResponse(val, tbl) ==
    [kind |-> "uint32", bytes |-> toBytes(val), value |-> val, table |-> tbl]

\* the string MeasureTimeLap returns, and the table it leaves
LapResponse(r) == StringResponse(r.reply, r.table)

\* a switch whose default case answers (a variant, for comparison)
dispatchSwitchAnswersAll(req, addr, h, tbl, ticks, now, local) ==
    StringResponse(FmtHMS(local), tbl)

\* the switch of TimeServer::dispatch, with now = std::time(nullptr) and
\* local = to_local(now): the response of the matching case; "none" when no
\* case matches, "params[0]" when case 12 indexes an empty params vector
dispatchSwitch(req, addr, h, tbl, ticks, now, local) ==
    CASE req.code = GetTime -> StringResponse(FmtDateTime(local), tbl)
      [] req.code = GetTimeWithoutDate -> StringResponse(FmtHMS(local), tbl)
      [] req.code = GetTimeSinceEpoch -> IntResponse(ToU32(now), tbl)
      [] req.code = GetClientToServerDelayEstimation ->
            IntResponse(TickCountNow(h, ticks), tbl)
      [] req.code = MeasuureRTT -> StringResponse(<<0>>, tbl)
      [] req.code = GetTimeWithoutDateOrSeconds -> StringResponse(FmtHM(local), tbl)
      [] req.code = GetYear -> StringResponse(FmtY(local), tbl)
      [] req.code = GetMonthAndDay -> StringResponse(FmtDM(local), tbl)
      [] req.code = GetSecondsSinceBeginningOfMonth ->
            IntResponse(seconds_since_month_start(now, h.zone), tbl)
      [] req.code = GetWeekOfYear -> IntResponse(week_of_year(now, h.zone), tbl)
      [] req.code = GetDaylightSavings ->
            StringResponse(IF local.tm_isdst > 0 THEN <<49>> ELSE <<48>>, tbl)
      [] req.code = GetTimeWithoutDateInCity ->
            IF req.params = <<>>
            THEN [kind |-> "params[0]", bytes |-> <<>>, value |-> U32Zero,
                  table |-> tbl]
            ELSE StringResponse(time_in_city(req.params[1], now), tbl)
      [] req.code = MeasureTimeLap -> LapResponse(MeasureTimeLapCall(tbl, addr, ticks))
      [] OTHER -> [kind |-> "none", bytes |-> <<>>, value |-> U32Zero,
                   table |-> tbl]

\* TimeServer::dispatch(req, clientAddr, clientAddrLen) on host h, the
\* steady clock at ticks
dispatchCase(req, addr, h, tbl, ticks) ==
    dispatchSwitch(req, addr, h, tbl, ticks, WallNow(h, ticks),
                   to_local(WallNow(h, ticks), h.zone))

(***************************************************************************)
(* The client's operations (Client/client.cpp).  BurstLen stands for the   *)
(* 100 of GetClientToServerDelayEstimation and MeasureRTT.                 *)
(***************************************************************************)
\* the shape of the handler TimeClient::dispatch calls for a menu choice
OpKind(code) ==
    IF code = GetClientToServerDelayEstimation THEN "delay"
    ELSE IF code = MeasuureRTT THEN "rtt"
    ELSE "single"

\* the receiveResponse overload the handler calls
OpReceives(code) ==
    IF code \in {GetTimeSinceEpoch, GetClientToServerDelayEstimation,
                 GetSecondsSinceBeginningOfMonth, GetWeekOfYear}
    THEN "u32" ELSE "str"

\* the datagram the handler sends: message[0] = code, or
\* incode(Request(code, {city})) for the city request
OpDatagram(code, city) ==
    IF code = GetTimeWithoutDateInCity
    THEN incode([code |-> code, args |-> <<city>>])
    ELSE <<CharToByte(code)>>

\* the handler as it is entered.  clean: no datagram was on its way or in
\* the socket then; lost0: how many datagrams had been lost until then
\* city: what promptCity returned, for the city request
NewOp(code, city, clean, lost0) ==
    [code |-> code, i |-> 0, sends |-> 0, recvs |-> 0, result |-> "running",
     city |-> city, clean |-> clean, lost0 |-> lost0]

\* a handler that goes on to receive after a failed send
AfterSendAlways(op, sent) ==
    IF OpKind(op.code) = "delay" /\ op.i + 1 < BurstLen
    THEN [pc |-> "send", i |-> op.i + 1, result |-> "running"]
    ELSE [pc |-> "recv", i |-> IF OpKind(op.code) = "delay" THEN 0 ELSE op.i,
          result |-> "running"]

\* a handler that receives after each of its sends
AfterSendEach(op, sent) ==
    IF ~sent THEN [pc |-> "menu", i |-> op.i, result |-> "send failed"]
    ELSE [pc |-> "recv", i |-> op.i, result |-> "running"]

\* where the handler goes after sendRequest returned sent
AfterSend(op, sent) ==
    IF ~sent THEN [pc |-> "menu", i |-> op.i, result |-> "send failed"]
    ELSE IF OpKind(op.code) = "delay" /\ op.i + 1 < BurstLen
    THEN [pc |-> "send", i |-> op.i + 1, result |-> "running"]
    ELSE [pc |-> "recv", i |-> IF OpKind(op.code) = "delay" THEN 0 ELSE op.i,
          result |-> "running"]

\* where the handler goes after receiveResponse returned got
AfterReceive(op, got) ==
    IF ~got THEN [pc |-> "menu", i |-> op.i, result |-> "recv failed"]
    ELSE IF OpKind(op.code) = "single" \/ op.i + 1 = BurstLen
    THEN [pc |-> "menu", i |-> op.i + 1, result |-> "ok"]
    ELSE [pc |-> IF OpKind(op.code) = "rtt" THEN "send" ELSE "recv",
          i |-> op.i + 1, result |-> "running"]

\* a recv that returns at once, with SOCKET_ERROR when nothing is queued
RecvPolls(queue) == TRUE

\* recv on the blocking socket returns when the socket has something
RecvReturns(queue) == queue # <<>>

\* what recv returns
RecvItem(queue) ==
    IF queue = <<>> THEN [op |-> 0, err |-> TRUE, data |-> <<>>] ELSE Head(queue)

\* receiveResponse(std::string&) or receiveResponse(uint32_t&) on item
OpReceiveOk(code, item) ==
    IF OpReceives(code) = "u32"
    THEN receiveResponseU32([err |-> item.err, data |-> item.data]).ok
    ELSE receiveResponseStr([err |-> item.err, data |-> item.data]).ok

(***************************************************************************)
(* Input domains.                                                          *)
(***************************************************************************)
\* characters of a parameter string: no NUL, which the frame uses as the
\* separator ('a', 'b')
ParamChars == {97, 98}

SeqsUpTo(S, n) == UNION {[1..k -> S] : k \in 0..n}

ParamStrings == SeqsUpTo(ParamChars, MaxStrLen)
ParamSeqs == SeqsUpTo(ParamStrings, MaxParams)

\* 16-bit halves whose bytes are 0x00, 0x01, 0x7F, 0x80 or 0xFF
SampleBytes == {0, 1, 127, 128, 255}
SampleHalves == {h * 256 + l : h \in SampleBytes, l \in SampleBytes}
U32Samples == {U32(hi, lo) : hi \in SampleHalves, lo \in SampleHalves}

\* datagrams a client may receive: bytes 0x00, 0x01, 0xFF
DgramBytes == {0, 1, 255}
Datagrams == SeqsUpTo(DgramBytes, MaxDgramLen)
RecvResults ==
    {[err |-> TRUE, data |-> <<>>]} \cup {[err |-> FALSE, data |-> d] : d \in Datagrams}

\* client endpoints: two on one address, one on another
Endpoints == {EndpointKey(1, 1), EndpointKey(1, 2), EndpointKey(2, 1)}

\* tick counts sampled by the server: around zero, around a carry into the
\* upper half, and at the top of the range
TickSamples == {U32(0, 0), U32(0, 1), U32(0, 65535), U32(1, 0), U32(65535, 65535)}
SampleVectors == SeqsUpTo(TickSamples, MaxSamples)

\* the threads that call MeasureTimeLap, and the endpoints they call it for
Threads == {1, 2}
MtEndpoints == {EndpointKey(1, 1), EndpointKey(1, 2)}
MtClockSteps == {TicksPerSec, 181 * TicksPerSec}

\* it == g_lap.end(), or no find made yet
NoEntry == [key |-> EndpointKey(0, 0), at |-> -1]

\* the client's endpoint as the server sees it, and the city the user picks
ClientEndpoint == EndpointKey(1, 1)
MenuCodes == GetTime..MeasureTimeLap

\* by how much the steady clock moves between two samples: one tick,
\* 150 s, 180 s, 181 s, 250 s
ClockSteps ==
    {1, 150 * TicksPerSec, 180 * TicksPerSec, 181 * TicksPerSec, 250 * TicksPerSec}

NoCall == [at |-> -1, reply |-> <<>>]

\* hosts the server runs on: the wall clock and the tick count when the
\* server starts, and the time zone.
\*   2024-01-01 00:00:00 UTC, on UTC
\*   2024-07-15 12:00:00 UTC, on UTC+3 in summer time, tick count about to wrap
\*   2024-03-31 00:59:59 UTC, on UTC-5
\*   2024-01-07 12:00:00 UTC, on UTC+1
Hosts ==
    {[wall |-> 1704067200, tick |-> U32(0, 300),
      zone |-> [off |-> 0, dst |-> FALSE]],
     [wall |-> 1721044800, tick |-> U32(65535, 65000),
      zone |-> [off |-> 10800, dst |-> TRUE]],
     [wall |-> 1711846799, tick |-> U32(1, 0),
      zone |-> [off |-> -18000, dst |-> FALSE]],
     [wall |-> 1704628800, tick |-> U32(0, 0),
      zone |-> [off |-> 3600, dst |-> FALSE]]}

\* datagrams the server may receive: every known code alone, unknown codes,
\* the empty datagram, code 12 with and without a city, codes with
\* parameters they ignore
SrvDatagrams ==
    {<<c>> : c \in GetTime..MeasureTimeLap}
    \cup {<<>>, <<0>>, <<0, 0>>, <<14>>, <<255>>, <<12, 0>>, <<12, 0, 50>>, <<12, 0, 120>>,
          <<12, 0>> \o Str_doha, <<12, 0>> \o Str_berlin,
          <<12, 0, 32, 78, 69, 87, 32, 89, 79, 82, 75, 32>>,
          <<13, 0, 97>>, <<3, 0, 97, 0, 98>>}

\* the senders of those datagrams
Senders == {EndpointKey(1, 1), EndpointKey(1, 2)}

\* strings a user may type for a city: the names and the menu numbers, a
\* name that is not on the list ("tokyo"), the empty string, a number off the
\* menu, in lower case, in upper case or capitalised, with white space around
Str_tokyo == <<116, 111, 107, 121, 111>>

CityWords ==
    {Str_doha, Str_prague, Str_new_york, Str_newyork, Str_new_space_york,
     Str_berlin, Str_utc, Str_tokyo, <<>>, <<49>>, <<50>>, <<51>>, <<52>>, <<53>>,
     <<112, 114, 97, 32, 103, 117, 101>>}

toupper(c) == IF c \in 97..122 THEN c - 32 ELSE c

UpperAll(w) == [k \in 1..Len(w) |-> toupper(w[k])]

UpperFirst(w) == [k \in 1..Len(w) |-> IF k = 1 THEN toupper(w[k]) ELSE w[k]]

SpaceRuns == {<<>>, <<32>>, <<9, 32>>, <<10>>}

CityInputs ==
    {l \o c \o r : l \in SpaceRuns, r \in SpaceRuns,
                   c \in UNION {{w, UpperAll(w), UpperFirst(w)} : w \in CityWords}}

\* what the user types when the handler of a menu choice asks for a city
TypedLines(code) == IF code = GetTimeWithoutDateInCity THEN CityInputs ELSE {<<>>}

\* the years the calendar functions are exercised in
DstYears == 2023..2025

\* times of day, in seconds: 00:00:00, 00:59:00, 00:59:59, 01:00:00,
\* 01:01:00, 06:59:00, 07:00:00, 07:01:00, 12:00:00, 23:30:00
TimesOfDay == {0, 3540, 3599, 3600, 3660, 25140, 25200, 25260, 43200, 84600}

\* timegm: the time_t of y-m-d at second sod of the day, UTC
TimeOf(y, m, d, sod) == DaysFromCivil(y, m, d) * 86400 + sod

\* UTC instants: every day of March, October and November at each of the
\* times of day, and the 15th of every month at noon
Instants ==
    {TimeOf(y, 3, d, sod) : y \in DstYears, d \in 1..31, sod \in TimesOfDay}
    \cup {TimeOf(y, 10, d, sod) : y \in DstYears, d \in 1..31, sod \in TimesOfDay}
    \cup {TimeOf(y, 11, d, sod) : y \in DstYears, d \in 1..30, sod \in TimesOfDay}
    \cup {TimeOf(y, m, 15, 43200) : y \in DstYears, m \in 1..12}

\* city strings handed to time_in_city
CityTokens ==
    {Str_utc, Str_doha, Str_prague, Str_berlin, Str_new_york, <<51>>,
     UpperFirst(Str_tokyo)}

\* arguments of the weekday helpers
WeekdayYears == {2000} \cup DstYears
WeekdayArgs ==
    [year : WeekdayYears, month : 1..12, weekday : 0..6, nth : 1..4]

\* by how much the steady clock moves between two steps of the server:
\* one second, 181 s
SrvClockSteps == {TicksPerSec, 181 * TicksPerSec}

\* what a read through params[0] of an empty vector may yield
GarbageStrings == {<<>>, Str_doha}

\* sockaddr_in clientAddr; before recvfrom fills it
IndeterminateAddr == EndpointKey(0, 0)

\* recvfrom has not delivered a datagram
NoRecv == [ok |-> FALSE, data |-> <<>>, from |-> IndeterminateAddr]

\* no datagram handed to sendto
NoDatagram ==
    [sent |-> FALSE, to |-> IndeterminateAddr, data |-> <<>>, code |-> Error,
     kind |-> "none", value |-> U32Zero]

(***************************************************************************)
(* The parts of the state a specification does not use.                    *)
(***************************************************************************)
CodecIdle ==
    /\ c_pc = "idle" /\ c_request = [code |-> Default, args |-> <<>>]
    /\ c_wire = <<>> /\ s_request = [code |-> Error, params |-> <<>>]

IntIdle ==
    /\ i_pc = "idle" /\ i_val = U32Zero /\ i_bytes = <<>> /\ i_back = U32Zero
    /\ i_recv = [ok |-> FALSE, response |-> U32Zero]

RecvIdle ==
    /\ r_pc = "idle" /\ r_in = [err |-> TRUE, data |-> <<>>]
    /\ r_kind = "none" /\ r_ok = FALSE /\ r_out = <<>>

LapIdle ==
    /\ g_lap = {} /\ steady = 0 /\ l_advances = 0
    /\ l_prev = [e \in Endpoints |-> NoCall]
    /\ l_last = [key |-> EndpointKey(0, 0), now |-> -1, reply |-> <<>>,
                 before |-> NoCall]

SrvIdle ==
    /\ s_pc = "idle" /\ request = DefaultRequest
    /\ clientAddr = IndeterminateAddr /\ s_out = NoDatagram /\ s_ok = FALSE
    /\ s_sends = 0
    /\ received = NoRecv
    /\ host = [wall |-> 0, tick |-> U32Zero, zone |-> [off |-> 0, dst |-> FALSE]]

\* nothing has been looked up yet
NoLookup == [of_server |-> <<>>, of_client |-> <<>>, found |-> FALSE]

CityIdle ==
    /\ n_pc = "idle" /\ n_in = <<>> /\ n_server = <<>> /\ n_client = <<>>
    /\ n_again = NoLookup

TzIdle ==
    /\ d_pc = "idle" /\ d_now = 0 /\ d_eu = FALSE /\ d_us = FALSE
    /\ d_city = <<>> /\ d_time = <<>>

WdIdle ==
    /\ w_pc = "idle" /\ w_in = [year |-> 1970, month |-> 1, weekday |-> 0, nth |-> 1]
    /\ w_nth = 0 /\ w_last = 0

AvgIdle ==
    /\ a_pc = "idle" /\ a_samples = <<>> /\ a_avg = DoubleZero

MtIdle ==
    /\ m_pc = [t \in Threads |-> "off"]
    /\ m_key = [t \in Threads |-> EndpointKey(0, 0)]
    /\ m_now = [t \in Threads |-> 0]
    /\ m_it = [t \in Threads |-> NoEntry]
    /\ m_reply = [t \in Threads |-> <<>>]
    /\ m_calls = [t \in Threads |-> 0]
    /\ m_swept = [t \in Threads |-> {}]
    /\ g_lap_mx = NoThread

CliIdle ==
    /\ k_pc = "idle" /\ k_op = NewOp(Default, <<>>, TRUE, 0) /\ k_ops = 0
    /\ k_last = [by |-> 0, of |-> 0]
    /\ net_req = <<>> /\ net_resp = <<>> /\ net_lost = 0 /\ net_errs = 0

ScanIdle ==
    /\ p_pc = "idle" /\ p_req = <<>> /\ p_i = 0 /\ p_start = 0
    /\ p_result = DefaultRequest /\ p_reads = {}

(***************************************************************************)
(* SpecCodec: the client encodes a request, the server decodes it.         *)
(***************************************************************************)
InitCodec ==
    /\ c_pc = "built"
    /\ c_request \in [code : ReqCodes, args : ParamSeqs]
    /\ c_wire = <<>>
    /\ s_request = [code |-> Error, params |-> <<>>]
    /\ IntIdle /\ RecvIdle /\ LapIdle /\ SrvIdle /\ CityIdle /\ TzIdle /\ WdIdle /\ AvgIdle /\ MtIdle /\ CliIdle /\ ScanIdle

\* TimeClient::sendRequest(const Request&): request = incode(request_)
Incode ==
    /\ c_pc = "built"
    /\ c_wire' = incode(c_request)
    /\ c_pc' = "encoded"
    /\ UNCHANGED <<c_request, s_request, intVars, recvVars, lapVars, srvVars, cityVars, tzVars, wdVars, avgVars, mtVars, cliVars, scanVars>>

\* TimeServer::receiveRequest: request = decode(buffer)
Decode ==
    /\ c_pc = "encoded"
    /\ s_request' = decode(c_wire)
    /\ c_pc' = "decoded"
    /\ UNCHANGED <<c_request, c_wire, intVars, recvVars, lapVars, srvVars, cityVars, tzVars, wdVars, avgVars, mtVars, cliVars, scanVars>>

NextCodec == Incode \/ Decode

SpecCodec == InitCodec /\ [][NextCodec]_vars

(***************************************************************************)
(* SpecDecode: the server decodes whatever datagram arrives, not only the  *)
(* frames the client's incode produces.                                    *)
(***************************************************************************)
InitDecode ==
    /\ c_pc = "encoded"
    /\ c_request = [code |-> Default, args |-> <<>>]
    /\ c_wire \in Datagrams
    /\ s_request = [code |-> Error, params |-> <<>>]
    /\ IntIdle /\ RecvIdle /\ LapIdle /\ SrvIdle /\ CityIdle /\ TzIdle /\ WdIdle /\ AvgIdle /\ MtIdle /\ CliIdle /\ ScanIdle

NextDecode == Decode

SpecDecode == InitDecode /\ [][NextDecode]_vars

(***************************************************************************)
(* SpecInt: the server encodes a uint32_t, the client decodes it.          *)
(***************************************************************************)
InitInt ==
    /\ i_pc = "value"
    /\ i_val \in U32Samples
    /\ i_bytes = <<>>
    /\ i_back = U32Zero
    /\ i_recv = [ok |-> FALSE, response |-> U32Zero]
    /\ CodecIdle /\ RecvIdle /\ LapIdle /\ SrvIdle /\ CityIdle /\ TzIdle /\ WdIdle /\ AvgIdle /\ MtIdle /\ CliIdle /\ ScanIdle

\* TimeServer::sendResponse(uint32_t): response = toBytes(response_)
ToBytes ==
    /\ i_pc = "value"
    /\ i_bytes' = toBytes(i_val)
    /\ i_pc' = "bytes"
    /\ UNCHANGED <<i_val, i_back, i_recv, codecVars, recvVars, lapVars, srvVars, cityVars, tzVars, wdVars, avgVars, mtVars, cliVars, scanVars>>

\* TimeClient::receiveResponse(uint32_t&): response = toUint32(recvBuff)
ToUint32 ==
    /\ i_pc = "bytes"
    /\ i_back' = toUint32(i_bytes)
    /\ i_pc' = "back"
    /\ UNCHANGED <<i_val, i_bytes, i_recv, codecVars, recvVars, lapVars, srvVars, cityVars, tzVars, wdVars, avgVars, mtVars, cliVars, scanVars>>

\* TimeClient::receiveResponse(uint32_t&) when recv delivers the datagram the
\* server's sendResponse(uint32_t) sent
ReceiveInt ==
    /\ i_pc = "bytes"
    /\ i_recv' = receiveResponseU32([err |-> FALSE, data |-> i_bytes])
    /\ i_pc' = "received"
    /\ UNCHANGED <<i_val, i_bytes, i_back, codecVars, recvVars, lapVars, srvVars, cityVars, tzVars, wdVars, avgVars, mtVars, cliVars, scanVars>>

NextInt == ToBytes \/ ToUint32 \/ ReceiveInt

SpecInt == InitInt /\ [][NextInt]_vars

(***************************************************************************)
(* SpecRecv: the client receives one datagram through one of the           *)
(* receiveResponse overloads.  On failure the caller's variable is left as *)
(* it was.                                                                 *)
(***************************************************************************)
InitRecv ==
    /\ r_pc = "wait"
    /\ r_in \in RecvResults
    /\ r_kind = "none" /\ r_ok = FALSE /\ r_out = <<>>
    /\ CodecIdle /\ IntIdle /\ LapIdle /\ SrvIdle /\ CityIdle /\ TzIdle /\ WdIdle /\ AvgIdle /\ MtIdle /\ CliIdle /\ ScanIdle

ReceiveVec ==
    /\ r_pc = "wait"
    /\ LET r == receiveResponseVec(r_in)
       IN  /\ r_ok' = r.ok
           /\ r_out' = IF r.ok THEN r.response ELSE r_out
    /\ r_kind' = "vec" /\ r_pc' = "done"
    /\ UNCHANGED <<r_in, codecVars, intVars, lapVars, srvVars, cityVars, tzVars, wdVars, avgVars, mtVars, cliVars, scanVars>>

ReceiveStr ==
    /\ r_pc = "wait"
    /\ LET r == receiveResponseStr(r_in)
       IN  /\ r_ok' = r.ok
           /\ r_out' = IF r.ok THEN r.response ELSE r_out
    /\ r_kind' = "str" /\ r_pc' = "done"
    /\ UNCHANGED <<r_in, codecVars, intVars, lapVars, srvVars, cityVars, tzVars, wdVars, avgVars, mtVars, cliVars, scanVars>>

ReceiveU32 ==
    /\ r_pc = "wait"
    /\ LET r == receiveResponseU32(r_in)
       IN  /\ r_ok' = r.ok
           /\ r_out' = IF r.ok THEN r.response ELSE r_out
    /\ r_kind' = "u32" /\ r_pc' = "done"
    /\ UNCHANGED <<r_in, codecVars, intVars, lapVars, srvVars, cityVars, tzVars, wdVars, avgVars, mtVars, cliVars, scanVars>>

NextRecv == ReceiveVec \/ ReceiveStr \/ ReceiveU32

SpecRecv == InitRecv /\ [][NextRecv]_vars

(***************************************************************************)
(* SpecLap: MeasureTimeLap called by several endpoints while the steady    *)
(* clock advances.  One call is one step: the whole body runs under        *)
(* g_lap_mx.                                                               *)
(***************************************************************************)
InitLap ==
    /\ LapIdle
    /\ CodecIdle /\ IntIdle /\ RecvIdle /\ SrvIdle /\ CityIdle /\ TzIdle /\ WdIdle /\ AvgIdle /\ MtIdle /\ CliIdle /\ ScanIdle

\* time passes between two calls
Advance(d) ==
    /\ l_advances < MaxAdvances
    /\ steady' = steady + d
    /\ l_advances' = l_advances + 1
    /\ UNCHANGED <<g_lap, l_prev, l_last, codecVars, intVars, recvVars, srvVars, cityVars, tzVars, wdVars, avgVars, mtVars, cliVars, scanVars>>

\* MeasureTimeLap(key.addr_be, key.port_be)
LapCall(key) ==
    /\ LET now == steady
           r == MeasureTimeLapCall(g_lap, key, now)
       IN  /\ g_lap' = r.table
           /\ l_last' = [key |-> key, now |-> now, reply |-> r.reply,
                         before |-> l_prev[key]]
           /\ l_prev' = [l_prev EXCEPT ![key] = [at |-> now, reply |-> r.reply]]
    /\ UNCHANGED <<steady, l_advances, codecVars, intVars, recvVars, srvVars, cityVars, tzVars, wdVars, avgVars, mtVars, cliVars, scanVars>>

NextLap ==
    \/ \E d \in ClockSteps : Advance(d)
    \/ \E key \in Endpoints : LapCall(key)

SpecLap == InitLap /\ [][NextLap]_vars

(***************************************************************************)
(* Spec: TimeServer::run.  Each iteration constructs a Request and a       *)
(* sockaddr_in, calls receiveRequest, whose result it ignores, and then    *)
(* dispatch.  The server is single-threaded: a handler runs to completion  *)
(* before the next datagram is read.                                       *)
(***************************************************************************)
Init ==
    /\ s_pc = "receive"
    /\ request = DefaultRequest
    /\ clientAddr = IndeterminateAddr
    /\ received = NoRecv
    /\ s_out = NoDatagram
    /\ s_ok = FALSE
    /\ s_sends = 0
    /\ host \in Hosts
    /\ CodecIdle /\ IntIdle /\ RecvIdle /\ LapIdle /\ CityIdle /\ TzIdle /\ WdIdle /\ AvgIdle /\ MtIdle /\ CliIdle /\ ScanIdle

\* time passes
Elapse(d) ==
    /\ s_pc \in {"receive", "dispatch"}
    /\ l_advances < MaxAdvances
    /\ steady' = steady + d
    /\ l_advances' = l_advances + 1
    /\ UNCHANGED <<g_lap, l_prev, l_last, codecVars, intVars, recvVars, srvVars, cityVars, tzVars, wdVars, avgVars, mtVars, cliVars, scanVars>>

\* a receive that does not wait for the dispatch of the datagram before (a
\* variant, for comparison)
ReceiveRequestAnytime(dgram, from) ==
    /\ s_pc \in {"receive", "dispatch"}
    /\ Len(dgram) <= BUFFER_SIZE
    /\ request' = decode(dgram)
    /\ clientAddr' = from
    /\ received' = [ok |-> TRUE, data |-> dgram, from |-> from]
    /\ s_out' = NoDatagram
    /\ s_sends' = 0
    /\ s_pc' = "dispatch"
    /\ UNCHANGED <<s_ok, host, codecVars, intVars, recvVars, lapVars, cityVars, tzVars, wdVars, avgVars, mtVars, cliVars, scanVars>>

\* TimeServer::receiveRequest, recvfrom delivering dgram sent by from
ReceiveRequest(dgram, from) ==
    /\ s_pc = "receive"
    /\ Len(dgram) <= BUFFER_SIZE
    /\ request' = decode(dgram)
    /\ clientAddr' = from
    /\ received' = [ok |-> TRUE, data |-> dgram, from |-> from]
    /\ s_out' = NoDatagram
    /\ s_sends' = 0
    /\ s_pc' = "dispatch"
    /\ UNCHANGED <<s_ok, host, codecVars, intVars, recvVars, lapVars, cityVars, tzVars, wdVars, avgVars, mtVars, cliVars, scanVars>>

\* TimeServer::receiveRequest, recvfrom returning SOCKET_ERROR: request and
\* clientAddr stay as constructed
ReceiveFailed ==
    /\ s_pc = "receive"
    /\ received' = NoRecv
    /\ s_out' = NoDatagram
    /\ s_sends' = 0
    /\ s_pc' = "dispatch"
    /\ UNCHANGED <<request, clientAddr, s_ok, host, codecVars, intVars,
                   recvVars, lapVars, cityVars, tzVars, wdVars, avgVars, mtVars, cliVars, scanVars>>

\* a sendResponse that never calls sendto (a variant, for comparison)
SendResponseDropped(r, done) ==
    /\ s_out' = NoDatagram
    /\ s_ok' = FALSE
    /\ s_sends' = s_sends

\* TimeServer::sendResponse: the bytes of r are handed to sendto, which
\* succeeds (done) or returns SOCKET_ERROR
SendResponse(r, done) ==
    /\ s_out' = [sent |-> TRUE, to |-> clientAddr, data |-> r.bytes,
                 code |-> request.code, kind |-> r.kind, value |-> r.value]
    /\ s_ok' = done
    /\ s_sends' = s_sends + 1

\* what dispatch does with the response r of its switch
DispatchOutcome(r) ==
    \/ /\ r.kind = "none"
       /\ s_out' = NoDatagram /\ s_ok' = FALSE /\ s_sends' = s_sends
       /\ g_lap' = g_lap /\ s_pc' = "receive"
    \/ /\ r.kind \in {"string", "uint32"}
       /\ \E done \in BOOLEAN : SendResponse(r, done)
       /\ g_lap' = r.table /\ s_pc' = "receive"
    \/ /\ r.kind = "params[0]"
       /\ \/ /\ s_pc' = "crashed"
             /\ UNCHANGED <<s_out, s_ok, s_sends>>
          \/ /\ \E str \in GarbageStrings, done \in BOOLEAN :
                   SendResponse(StringResponse(
                       time_in_city(str, WallNow(host, steady)), g_lap), done)
             /\ s_pc' = "receive"
       /\ g_lap' = g_lap

\* a loop whose request and clientAddr are declared once, outside the
\* loop, and so keep what the iteration before left (a variant, for
\* comparison)
DispatchKeepsRequest ==
    /\ s_pc = "dispatch"
    /\ DispatchOutcome(dispatchCase(request, clientAddr, host, g_lap, steady))
    /\ UNCHANGED <<request, clientAddr>>
    /\ UNCHANGED <<received, host, steady, l_advances, l_prev, l_last, codecVars, intVars,
                   recvVars, cityVars, tzVars, wdVars, avgVars, mtVars, cliVars, scanVars>>

\* TimeServer::dispatch and the end of the iteration of run()
Dispatch ==
    /\ s_pc = "dispatch"
    /\ DispatchOutcome(dispatchCase(request, clientAddr, host, g_lap, steady))
    /\ request' = DefaultRequest
    /\ clientAddr' = IndeterminateAddr
    /\ UNCHANGED <<received, host, steady, l_advances, l_prev, l_last, codecVars, intVars,
                   recvVars, cityVars, tzVars, wdVars, avgVars, mtVars, cliVars, scanVars>>

Next ==
    \/ \E d \in SrvClockSteps : Elapse(d)
    \/ \E dgram \in SrvDatagrams, from \in Senders : ReceiveRequest(dgram, from)
    \/ ReceiveFailed
    \/ Dispatch

Spec == Init /\ [][Next]_vars

\* the end of an iteration of run(): dispatch has returned, or the process
\* has died in it.  Under Next these are the Dispatch steps, and one is
\* possible exactly when s_pc = "dispatch".
IterationEnds == s_pc = "dispatch" /\ s_pc' \in {"receive", "crashed"}

\* The server's thread is never suspended for good: an iteration of run()
\* that has received goes on through dispatch.  recvfrom may block for ever.
FairSpec == Spec /\ WF_s_pc(IterationEnds)

(***************************************************************************)
(* SpecCity: one string is normalized by the server's normalize_city and   *)
(* by the client's normalizeCity.                                          *)
(***************************************************************************)
InitCity ==
    /\ n_pc = "input"
    /\ n_in \in CityInputs
    /\ n_server = <<>> /\ n_client = <<>>
    /\ n_again = NoLookup
    /\ CodecIdle /\ IntIdle /\ RecvIdle /\ LapIdle /\ SrvIdle /\ TzIdle /\ WdIdle /\ AvgIdle /\ MtIdle /\ CliIdle /\ ScanIdle

\* time_in_city: city = normalize_city(city)
NormalizeServer ==
    /\ n_pc = "input"
    /\ n_server' = normalize_city(n_in)
    /\ n_pc' = "server"
    /\ UNCHANGED <<n_in, n_client, n_again, codecVars, intVars, recvVars, lapVars, srvVars, tzVars, wdVars, avgVars, mtVars, cliVars, scanVars>>

\* promptCity: return normalizeCity(city)
NormalizeClient ==
    /\ n_pc = "server"
    /\ n_client' = normalizeCity(n_in)
    /\ n_pc' = "both"
    /\ UNCHANGED <<n_in, n_server, n_again, codecVars, intVars, recvVars, lapVars, srvVars, tzVars, wdVars, avgVars, mtVars, cliVars, scanVars>>

\* time_in_city on a token that is already normalized: the server's own
\* token, and the token the client put on the wire; then kCitiesExt.find
LookupToken ==
    /\ n_pc = "both"
    /\ n_again' = [of_server |-> normalize_city(n_server),
                   of_client |-> normalize_city(n_client),
                   found |-> kCitiesExt(normalize_city(n_client)).found]
    /\ n_pc' = "again"
    /\ UNCHANGED <<n_in, n_server, n_client, codecVars, intVars, recvVars, lapVars, srvVars, tzVars, wdVars, avgVars, mtVars, cliVars, scanVars>>

NextCity == NormalizeServer \/ NormalizeClient \/ LookupToken

SpecCity == InitCity /\ [][NextCity]_vars

(***************************************************************************)
(* SpecTz: at one UTC instant, the summer-time rules are evaluated as      *)
(* time_in_city evaluates them, and time_in_city is called for a city.     *)
(***************************************************************************)
InitTz ==
    /\ d_pc = "now"
    /\ d_now \in Instants
    /\ d_eu = FALSE /\ d_us = FALSE /\ d_city = <<>> /\ d_time = <<>>
    /\ CodecIdle /\ IntIdle /\ RecvIdle /\ LapIdle /\ SrvIdle /\ CityIdle /\ WdIdle /\ AvgIdle /\ MtIdle /\ CliIdle /\ ScanIdle

\* is_dst_eu(utc_tm), with utc_tm = to_utc(now)
EvalDstEu ==
    /\ d_pc = "now"
    /\ d_eu' = is_dst_eu(to_utc(d_now))
    /\ d_pc' = "eu"
    /\ UNCHANGED <<d_now, d_us, d_city, d_time, codecVars, intVars, recvVars,
                   lapVars, srvVars, cityVars, wdVars, avgVars, mtVars, cliVars, scanVars>>

\* is_dst_us_local_approx(now + offset * 3600), with offset = -5
EvalDstUs ==
    /\ d_pc = "eu"
    /\ d_us' = is_dst_us_local_approx(d_now + (-5) * 3600)
    /\ d_pc' = "us"
    /\ UNCHANGED <<d_now, d_eu, d_city, d_time, codecVars, intVars, recvVars,
                   lapVars, srvVars, cityVars, wdVars, avgVars, mtVars, cliVars, scanVars>>

\* GetTimeWithoutDateInCity(city)
EvalCity(city) ==
    /\ d_pc = "us"
    /\ d_city' = city
    /\ d_time' = time_in_city(city, d_now)
    /\ d_pc' = "city"
    /\ UNCHANGED <<d_now, d_eu, d_us, codecVars, intVars, recvVars, lapVars,
                   srvVars, cityVars, wdVars, avgVars, mtVars, cliVars, scanVars>>

NextTz == EvalDstEu \/ EvalDstUs \/ \E city \in CityTokens : EvalCity(city)

SpecTz == InitTz /\ [][NextTz]_vars

(***************************************************************************)
(* SpecWeekday: the weekday helpers on one set of arguments.               *)
(***************************************************************************)
InitWeekday ==
    /\ w_pc = "args"
    /\ w_in \in WeekdayArgs
    /\ w_nth = 0 /\ w_last = 0
    /\ CodecIdle /\ IntIdle /\ RecvIdle /\ LapIdle /\ SrvIdle /\ CityIdle /\ TzIdle /\ AvgIdle /\ MtIdle /\ CliIdle /\ ScanIdle

NthWeekday ==
    /\ w_pc = "args"
    /\ w_nth' = nth_weekday_of_month(w_in.year, w_in.month, w_in.weekday, w_in.nth)
    /\ w_pc' = "nth"
    /\ UNCHANGED <<w_in, w_last, codecVars, intVars, recvVars, lapVars, srvVars,
                   cityVars, tzVars, avgVars, mtVars, cliVars, scanVars>>

LastWeekday ==
    /\ w_pc = "nth"
    /\ w_last' = last_weekday_of_month(w_in.year, w_in.month, w_in.weekday)
    /\ w_pc' = "last"
    /\ UNCHANGED <<w_in, w_nth, codecVars, intVars, recvVars, lapVars, srvVars,
                   cityVars, tzVars, avgVars, mtVars, cliVars, scanVars>>

NextWeekday == NthWeekday \/ LastWeekday

SpecWeekday == InitWeekday /\ [][NextWeekday]_vars

(***************************************************************************)
(* SpecAvg: calcAvgDifference applied to a vector of samples.              *)
(***************************************************************************)
InitAvg ==
    /\ a_pc = "samples"
    /\ a_samples \in SampleVectors
    /\ a_avg = DoubleZero
    /\ CodecIdle /\ IntIdle /\ RecvIdle /\ LapIdle /\ SrvIdle /\ CityIdle /\ TzIdle /\ WdIdle /\ MtIdle /\ CliIdle /\ ScanIdle

\* double avg = calcAvgDifference(samples)
CalcAvg ==
    /\ a_pc = "samples"
    /\ a_avg' = calcAvgDifference(a_samples)
    /\ a_pc' = "done"
    /\ UNCHANGED <<a_samples, codecVars, intVars, recvVars, lapVars, srvVars, cityVars, tzVars, wdVars, mtVars, cliVars, scanVars>>

NextAvg == CalcAvg

SpecAvg == InitAvg /\ [][NextAvg]_vars

(***************************************************************************)
(* SpecLapMT: MeasureTimeLap called from several threads at once.  Each    *)
(* statement of the function that reads the clock or touches g_lap is a    *)
(* step; the steps of different threads interleave freely.                 *)
(***************************************************************************)
InitLapMT ==
    /\ m_pc = [t \in Threads |-> "idle"]
    /\ m_key = [t \in Threads |-> EndpointKey(0, 0)]
    /\ m_now = [t \in Threads |-> 0]
    /\ m_it = [t \in Threads |-> NoEntry]
    /\ m_reply = [t \in Threads |-> <<>>]
    /\ m_calls = [t \in Threads |-> 0]
    /\ m_swept = [t \in Threads |-> {}]
    /\ g_lap_mx = NoThread
    /\ LapIdle
    /\ CodecIdle /\ IntIdle /\ RecvIdle /\ SrvIdle /\ CityIdle /\ TzIdle /\ WdIdle /\ AvgIdle /\ CliIdle /\ ScanIdle

\* the steady clock moves on
MtTick(d) ==
    /\ l_advances < MaxTicks
    /\ steady' = steady + d
    /\ l_advances' = l_advances + 1
    /\ UNCHANGED <<g_lap, l_prev, l_last, mtVars, codecVars, intVars, recvVars, srvVars, cityVars, tzVars, wdVars, avgVars, cliVars, scanVars>>

\* the call: EndpointKey key{ src_addr_be, src_port_be };
MtCall(t, key) ==
    /\ m_pc[t] = "idle"
    /\ m_calls[t] < MaxCalls
    /\ m_calls' = [m_calls EXCEPT ![t] = @ + 1]
    /\ m_key' = [m_key EXCEPT ![t] = key]
    /\ m_it' = [m_it EXCEPT ![t] = NoEntry]
    /\ m_pc' = [m_pc EXCEPT ![t] = "called"]
    /\ UNCHANGED <<m_now, m_reply, m_swept, g_lap_mx, lapVars, codecVars, intVars, recvVars, srvVars, cityVars, tzVars, wdVars, avgVars, cliVars, scanVars>>

\* auto now = clock::now();
MtNow(t) ==
    /\ m_pc[t] = "called"
    /\ m_now' = [m_now EXCEPT ![t] = steady]
    /\ m_pc' = [m_pc EXCEPT ![t] = "lock"]
    /\ UNCHANGED <<m_key, m_it, m_reply, m_calls, m_swept, g_lap_mx, lapVars, codecVars, intVars, recvVars, srvVars, cityVars, tzVars, wdVars, avgVars, cliVars, scanVars>>

\* std::lock_guard<std::mutex> lk(g_lap_mx);
MtLock(t) ==
    /\ m_pc[t] = "lock"
    /\ MutexFree(g_lap_mx)
    /\ g_lap_mx' = t
    /\ m_pc' = [m_pc EXCEPT ![t] = "sweep"]
    /\ UNCHANGED <<m_key, m_now, m_it, m_reply, m_calls, m_swept, lapVars, codecVars, intVars, recvVars, srvVars, cityVars, tzVars, wdVars, avgVars, cliVars, scanVars>>

\* the loop that erases the expired entries
MtSweep(t) ==
    /\ m_pc[t] = "sweep"
    /\ g_lap' = Sweep(g_lap, m_now[t])
    /\ m_swept' = [m_swept EXCEPT ![t] = Sweep(g_lap, m_now[t])]
    /\ m_pc' = [m_pc EXCEPT ![t] = "find"]
    /\ UNCHANGED <<m_key, m_now, m_it, m_reply, m_calls, g_lap_mx, steady, l_advances, l_prev, l_last, codecVars, intVars, recvVars, srvVars, cityVars, tzVars, wdVars, avgVars, cliVars, scanVars>>

\* auto it = g_lap.find(key); if (it == g_lap.end())
MtFind(t) ==
    /\ m_pc[t] = "find"
    /\ IF Find(g_lap, m_key[t]) = {}
       THEN /\ m_it' = [m_it EXCEPT ![t] = NoEntry]
            /\ m_pc' = [m_pc EXCEPT ![t] = "insert"]
       ELSE /\ m_it' = [m_it EXCEPT ![t] = CHOOSE e \in Find(g_lap, m_key[t]) : TRUE]
            /\ m_pc' = [m_pc EXCEPT ![t] = "erase"]
    /\ UNCHANGED <<m_key, m_now, m_reply, m_calls, m_swept, g_lap_mx, lapVars, codecVars, intVars, recvVars, srvVars, cityVars, tzVars, wdVars, avgVars, cliVars, scanVars>>

\* g_lap[key] = now; return "Timer started";
MtInsert(t) ==
    /\ m_pc[t] = "insert"
    /\ g_lap' = {e \in g_lap : ~EndpointKeyEq(e.key, m_key[t])}
                    \cup {[key |-> m_key[t], at |-> m_now[t]]}
    /\ m_reply' = [m_reply EXCEPT ![t] = TimerStarted]
    /\ m_pc' = [m_pc EXCEPT ![t] = "unlock"]
    /\ UNCHANGED <<m_key, m_now, m_it, m_calls, m_swept, g_lap_mx, steady, l_advances, l_prev, l_last, codecVars, intVars, recvVars, srvVars, cityVars, tzVars, wdVars, avgVars, cliVars, scanVars>>

\* sec = duration_cast<seconds>(now - it->second).count(); g_lap.erase(it);
\* and the MM:SS string returned
MtErase(t) ==
    /\ m_pc[t] = "erase"
    /\ g_lap' = LapErase(g_lap, m_it[t])
    /\ m_reply' = [m_reply EXCEPT ![t] = FormatLap(ElapsedSeconds(m_now[t], m_it[t].at))]
    /\ m_pc' = [m_pc EXCEPT ![t] = "unlock"]
    /\ UNCHANGED <<m_key, m_now, m_it, m_calls, m_swept, g_lap_mx, steady, l_advances, l_prev, l_last, codecVars, intVars, recvVars, srvVars, cityVars, tzVars, wdVars, avgVars, cliVars, scanVars>>

\* the destructor of lk at the return
MtUnlock(t) ==
    /\ m_pc[t] = "unlock"
    /\ g_lap_mx' = NoThread
    /\ m_pc' = [m_pc EXCEPT ![t] = "idle"]
    /\ UNCHANGED <<m_key, m_now, m_it, m_reply, m_calls, m_swept, lapVars, codecVars, intVars, recvVars, srvVars, cityVars, tzVars, wdVars, avgVars, cliVars, scanVars>>

NextLapMT ==
    \/ \E d \in MtClockSteps : MtTick(d)
    \/ \E t \in Threads, key \in MtEndpoints : MtCall(t, key)
    \/ \E t \in Threads : MtNow(t)
    \/ \E t \in Threads : MtLock(t)
    \/ \E t \in Threads : MtSweep(t)
    \/ \E t \in Threads : MtFind(t)
    \/ \E t \in Threads : MtInsert(t)
    \/ \E t \in Threads : MtErase(t)
    \/ \E t \in Threads : MtUnlock(t)

SpecLapMT == InitLapMT /\ [][NextLapMT]_vars

(***************************************************************************)
(* SpecClient: the client's menu loop, one operation after the other, with *)
(* the network and the server between a request and its response.          *)
(***************************************************************************)
InitClient ==
    /\ k_pc = "menu" /\ k_op = NewOp(Default, <<>>, TRUE, 0) /\ k_ops = 0
    /\ k_last = [by |-> 0, of |-> 0]
    /\ net_req = <<>> /\ net_resp = <<>> /\ net_lost = 0 /\ net_errs = 0
    /\ s_pc = "idle" /\ request = DefaultRequest
    /\ clientAddr = IndeterminateAddr /\ s_out = NoDatagram /\ s_ok = FALSE
    /\ s_sends = 0 /\ received = NoRecv
    /\ host \in Hosts
    /\ LapIdle
    /\ CodecIdle /\ IntIdle /\ RecvIdle /\ CityIdle /\ TzIdle /\ WdIdle /\ AvgIdle /\ MtIdle /\ ScanIdle

\* TimeClient::run: a choice 1..13 is read and dispatch(code) is called; the
\* city handler first asks for a city, and the user types line
Choose(code, line) ==
    /\ k_pc = "menu"
    /\ k_ops < MaxOps
    /\ k_ops' = k_ops + 1
    /\ k_op' = NewOp(code,
                    IF code = GetTimeWithoutDateInCity THEN promptCity(line) ELSE <<>>,
                    net_req = <<>> /\ net_resp = <<>>, net_lost)
    /\ k_pc' = "send"
    /\ UNCHANGED <<k_last, net_req, net_resp, net_lost, net_errs, codecVars, intVars, recvVars, lapVars, srvVars, cityVars, tzVars, wdVars, avgVars, mtVars, scanVars>>

\* TimeClient::sendRequest: one sendto, which succeeds (sent) or returns
\* SOCKET_ERROR
SendRequest(sent) ==
    /\ k_pc = "send"
    /\ net_req' = IF sent
                  THEN Append(net_req, [op |-> k_ops,
                                        data |-> OpDatagram(k_op.code, k_op.city)])
                  ELSE net_req
    /\ k_op' = [k_op EXCEPT !.sends = @ + 1,
                            !.i = AfterSend(k_op, sent).i,
                            !.result = AfterSend(k_op, sent).result]
    /\ k_pc' = AfterSend(k_op, sent).pc
    /\ UNCHANGED <<k_ops, k_last, net_resp, net_lost, net_errs, codecVars, intVars, recvVars, lapVars, srvVars, cityVars, tzVars, wdVars, avgVars, mtVars, scanVars>>

\* TimeClient::receiveResponse: one recv, which returns the datagram or the
\* error at the head of the socket's queue
Receive ==
    /\ k_pc = "recv"
    /\ RecvReturns(net_resp)
    /\ net_resp' = IF net_resp = <<>> THEN <<>> ELSE Tail(net_resp)
    /\ k_last' = IF RecvItem(net_resp).err THEN k_last
                 ELSE [by |-> k_ops, of |-> RecvItem(net_resp).op]
    /\ k_op' = [k_op EXCEPT
                  !.recvs = @ + 1,
                  !.i = AfterReceive(k_op, OpReceiveOk(k_op.code, RecvItem(net_resp))).i,
                  !.result = AfterReceive(k_op, OpReceiveOk(k_op.code, RecvItem(net_resp))).result]
    /\ k_pc' = AfterReceive(k_op, OpReceiveOk(k_op.code, RecvItem(net_resp))).pc
    /\ UNCHANGED <<k_ops, net_req, net_lost, net_errs, codecVars, intVars, recvVars, lapVars, srvVars, cityVars, tzVars, wdVars, avgVars, mtVars, scanVars>>

\* what the server's reply r adds to the client's socket
Delivered(r, op) ==
    IF r.kind \in {"string", "uint32"}
    THEN <<[op |-> op, err |-> FALSE, data |-> r.bytes]>>
    ELSE <<>>

\* the server receives the oldest request in flight, dispatches it and its
\* response, if any, reaches the client's socket
ServerReply ==
    /\ net_req # <<>>
    /\ net_req' = Tail(net_req)
    /\ net_resp' = net_resp \o
           Delivered(dispatchCase(decode(Head(net_req).data), ClientEndpoint,
                                  host, g_lap, steady), Head(net_req).op)
    /\ g_lap' = dispatchCase(decode(Head(net_req).data), ClientEndpoint,
                             host, g_lap, steady).table
    /\ UNCHANGED <<k_pc, k_op, k_ops, k_last, net_lost, net_errs, steady, l_advances, l_prev, l_last, codecVars, intVars, recvVars, srvVars, cityVars, tzVars, wdVars, avgVars, mtVars, scanVars>>

\* the network loses the oldest request in flight
LoseRequest ==
    /\ net_req # <<>>
    /\ net_lost < MaxLost
    /\ net_req' = Tail(net_req)
    /\ net_lost' = net_lost + 1
    /\ UNCHANGED <<k_pc, k_op, k_ops, k_last, net_resp, net_errs, codecVars, intVars, recvVars, lapVars, srvVars, cityVars, tzVars, wdVars, avgVars, mtVars, scanVars>>

\* the response to the oldest request in flight is lost on its way back
LoseResponse ==
    /\ net_req # <<>>
    /\ net_lost < MaxLost
    /\ net_req' = Tail(net_req)
    /\ net_lost' = net_lost + 1
    /\ g_lap' = dispatchCase(decode(Head(net_req).data), ClientEndpoint,
                             host, g_lap, steady).table
    /\ UNCHANGED <<k_pc, k_op, k_ops, k_last, net_resp, net_errs, steady, l_advances, l_prev, l_last, codecVars, intVars, recvVars, srvVars, cityVars, tzVars, wdVars, avgVars, mtVars, scanVars>>

\* the socket is given an error (a port-unreachable report, say) that the
\* next recv returns as SOCKET_ERROR
SocketError ==
    /\ net_errs < MaxErrors
    /\ net_errs' = net_errs + 1
    /\ net_resp' = Append(net_resp, [op |-> 0, err |-> TRUE, data |-> <<>>])
    /\ UNCHANGED <<k_pc, k_op, k_ops, k_last, net_req, net_lost, codecVars, intVars, recvVars, lapVars, srvVars, cityVars, tzVars, wdVars, avgVars, mtVars, scanVars>>

NextClient ==
    \/ \E code \in MenuCodes : \E line \in TypedLines(code) : Choose(code, line)
    \/ \E sent \in BOOLEAN : SendRequest(sent)
    \/ Receive
    \/ ServerReply
    \/ LoseRequest
    \/ LoseResponse
    \/ SocketError

SpecClient == InitClient /\ [][NextClient]_vars

(***************************************************************************)
(* SpecScan: TimeServer::decode run step by step on a datagram, one step   *)
(* per evaluation of a loop condition.  p_reads collects the index of      *)
(* every element of req the code evaluates.                                *)
(***************************************************************************)
\* what req[idx] evaluates to: the byte, or, past the end of the vector,
\* whatever the memory holds
ByteAt(req, idx) == IF idx < Len(req) THEN {req[idx + 1]} ELSE DgramBytes

\* an inner loop that tests req[i] without testing i first (a variant, for
\* comparison)
InnerEvaluatesAlways(req, i) == TRUE

\* i < req.size() && req[i] != '\0': req[i] is evaluated when i < req.size()
InnerEvaluates(req, i) == i < Len(req)

InitScan ==
    /\ p_pc = "start"
    /\ p_req \in Datagrams
    /\ p_i = 0 /\ p_start = 0
    /\ p_result = DefaultRequest /\ p_reads = {}
    /\ CodecIdle /\ IntIdle /\ RecvIdle /\ LapIdle /\ SrvIdle /\ CityIdle /\ TzIdle /\ WdIdle /\ AvgIdle /\ MtIdle /\ CliIdle

\* result.code = req.empty() ? ReqCode::Error : req[0]; size_t i = 1;
ScanStart ==
    /\ p_pc = "start"
    /\ p_result' = [code |-> IF p_req = <<>> THEN Error ELSE ByteToChar(p_req[1]),
                    params |-> <<>>]
    /\ p_reads' = IF p_req = <<>> THEN p_reads ELSE p_reads \cup {0}
    /\ p_i' = 1
    /\ p_pc' = "outer"
    /\ UNCHANGED <<p_req, p_start, codecVars, intVars, recvVars, lapVars, srvVars, cityVars, tzVars, wdVars, avgVars, mtVars, cliVars>>

\* while (i < req.size()) { if (req[i] == '\0') { ++i; start = i; ... }
\* else ++i; }   return result;
ScanOuter ==
    /\ p_pc = "outer"
    /\ IF p_i < Len(p_req)
       THEN /\ p_reads' = p_reads \cup {p_i}
            /\ p_i' = p_i + 1
            /\ IF p_req[p_i + 1] = 0
               THEN p_start' = p_i + 1 /\ p_pc' = "inner"
               ELSE p_start' = p_start /\ p_pc' = "outer"
       ELSE /\ p_pc' = "done"
            /\ UNCHANGED <<p_i, p_start, p_reads>>
    /\ UNCHANGED <<p_req, p_result, codecVars, intVars, recvVars, lapVars, srvVars, cityVars, tzVars, wdVars, avgVars, mtVars, cliVars>>

\* the inner loop is left: if (start < req.size())
\*     result.params.emplace_back(req.begin() + start, req.begin() + i);
ScanEmit ==
    /\ p_result' = IF p_start < Len(p_req)
                   THEN [p_result EXCEPT
                            !.params = Append(@, SubSeq(p_req, p_start + 1, p_i))]
                   ELSE p_result
    /\ p_pc' = "outer"
    /\ p_i' = p_i

\* while (i < req.size() && req[i] != '\0') ++i;
ScanInner ==
    /\ p_pc = "inner"
    /\ IF InnerEvaluates(p_req, p_i)
       THEN /\ p_reads' = p_reads \cup {p_i}
            /\ \E b \in ByteAt(p_req, p_i) :
                  IF b # 0
                  THEN p_i' = p_i + 1 /\ p_pc' = "inner" /\ p_result' = p_result
                  ELSE ScanEmit
       ELSE /\ p_reads' = p_reads
            /\ ScanEmit
    /\ UNCHANGED <<p_req, p_start, codecVars, intVars, recvVars, lapVars, srvVars, cityVars, tzVars, wdVars, avgVars, mtVars, cliVars>>

NextScan == ScanStart \/ ScanOuter \/ ScanInner

SpecScan == InitScan /\ [][NextScan]_vars

\* decode is one call that nothing interrupts: it takes its next step
FairScan == SpecScan /\ WF_scanVars(NextScan)

(***************************************************************************)
(* C1.  Round-trip framing: the server's decode of the client's            *)
(* incode(code, params) has the same code and the same parameter sequence, *)
(* for every code and every parameter sequence, empty strings included.    *)
(* Refuted by the code: a trailing empty parameter is dropped.             *)
(***************************************************************************)
C1_RoundTrip ==
    c_pc = "decoded" =>
        /\ s_request.code = c_request.code
        /\ s_request.params = c_request.args

(***************************************************************************)
(* C2.  Integer round trip: toUint32(toBytes(v)) = v for every uint32 v.   *)
(***************************************************************************)
C2_IntRoundTrip ==
    i_pc = "back" => i_back = i_val

\* a value with stripped leading zero bytes has made the round trip
C2_Witness ==
    /\ i_pc = "back"
    /\ i_val # U32Zero
    /\ Len(i_bytes) < 4
    /\ i_back = i_val

(***************************************************************************)
(* C3.  For every uint32 v, toBytes(v) has max(1, ceil(bitlength(v) / 8))  *)
(* bytes and is v written most significant byte first.                     *)
(* Refuted by the code at v = 0, where toBytes returns no byte at all.     *)
(***************************************************************************)
\* the number of bits of a 16-bit half: the least n with x < 2^n
BitLength16(x) == CHOOSE n \in 0..16 : x < 2 ^ n /\ (n = 0 \/ x >= 2 ^ (n - 1))

BitLength(v) == IF v.hi > 0 THEN 16 + BitLength16(v.hi) ELSE BitLength16(v.lo)

MinimalLength(v) ==
    LET n == (BitLength(v) + 7) \div 8 IN IF n < 1 THEN 1 ELSE n

RECURSIVE BigEndianValue(_)
\* the number a sequence of at most 4 bytes denotes, most significant first
BigEndianValue(bytes) ==
    IF bytes = <<>> THEN U32Zero
    ELSE LET m == BigEndianValue(SubSeq(bytes, 1, Len(bytes) - 1))
         IN  U32((m.hi % 256) * 256 + (m.lo \div 256),
                 (m.lo % 256) * 256 + bytes[Len(bytes)])

C3_MinimalBigEndian ==
    i_pc \in {"bytes", "back"} =>
        /\ Len(i_bytes) = MinimalLength(i_val)
        /\ BigEndianValue(i_bytes) = i_val

(***************************************************************************)
(* C4.  Every integer response the server sends (codes 3, 4, 9, 10) is a   *)
(* datagram of 1 to 4 bytes, and when the value computed is 0 the datagram *)
(* is the single byte 0x00.                                                *)
(* Refuted by the code: sendResponse(uint32_t) sends toBytes(0), which is  *)
(* empty, so the datagram has no byte at all.                              *)
(***************************************************************************)
C4_IntegerResponseLength ==
    (s_out.sent /\ s_out.kind = "uint32") =>
        /\ s_out.code \in {GetTimeSinceEpoch, GetClientToServerDelayEstimation,
                           GetSecondsSinceBeginningOfMonth, GetWeekOfYear}
        /\ Len(s_out.data) \in 1..4
        /\ (s_out.value = U32Zero => s_out.data = <<0>>)

(***************************************************************************)
(* C11.  For every received datagram that is empty or whose first byte is  *)
(* not a request code 1..13, the dispatch of it hands nothing to sendto    *)
(* and leaves the lap-timer table as it was.                               *)
(***************************************************************************)
KnownCode(dgram) == dgram # <<>> /\ dgram[1] \in GetTime..MeasureTimeLap

C11_UnknownSilentDrop ==
    [][(s_pc = "dispatch" /\ received.ok /\ ~KnownCode(received.data))
          => (s_out' = NoDatagram /\ g_lap' = g_lap)]_vars

\* the datagram 0xFF has been dispatched while a lap timer was pending
C11_Witness ==
    /\ s_pc = "receive" /\ received.ok /\ received.data = <<255>>
    /\ s_out = NoDatagram /\ g_lap # {}

(***************************************************************************)
(* C12.  As claimed: decoding an empty datagram or a datagram of null      *)
(* bytes only yields the request code Error (-1).  Refuted: a null first   *)
(* byte decodes to Default (0).                                            *)
(***************************************************************************)
AllNull(dgram) == \A k \in 1..Len(dgram) : dgram[k] = 0

C13_MissingParameterDefined ==
    (received.ok /\ decode(received.data).code = GetTimeWithoutDateInCity
                 /\ decode(received.data).params = <<>>)
        => s_pc # "crashed"

(***************************************************************************)
(* C14.  For every received datagram whose first byte c is a request code  *)
(* 1..13 (with a parameter decoded when c = 12), the dispatch of it hands  *)
(* one datagram to sendto, addressed to the sender, of the shape c fixes:  *)
(* ASCII text for 1, 2, 6, 7, 8, 11, 12, 13; the big-endian bytes of the   *)
(* value without leading zero bytes for 3, 4, 9, 10; the byte 0x00 for 5.  *)
(***************************************************************************)
IsAsciiText(bytes) == bytes # <<>> /\ \A k \in 1..Len(bytes) : bytes[k] \in 32..126

IsStrippedInteger(bytes, val) ==
    /\ Len(bytes) <= 4
    /\ bytes = <<>> \/ bytes[1] # 0
    /\ BigEndianValue(bytes) = val

ResponseShape(c, out) ==
    CASE c \in {GetTime, GetTimeWithoutDate, GetTimeWithoutDateOrSeconds, GetYear,
                GetMonthAndDay, GetDaylightSavings, GetTimeWithoutDateInCity,
                MeasureTimeLap} -> IsAsciiText(out.data)
      [] c \in {GetTimeSinceEpoch, GetClientToServerDelayEstimation,
                GetSecondsSinceBeginningOfMonth, GetWeekOfYear} ->
            IsStrippedInteger(out.data, out.value)
      [] c = MeasuureRTT -> out.data = <<0>>
      [] OTHER -> FALSE

U32ToInt(val) == val.hi * 65536 + val.lo

EpochAnswerAtNoon ==
    /\ s_out.sent /\ s_out.code = GetTimeSinceEpoch
    /\ FmtDateTime(to_utc(U32ToInt(s_out.value)))
         = <<48, 55, 47, 48, 49, 47, 50, 48, 50, 52, 32,
             49, 50, 58, 48, 48, 58, 48, 48>>

C15_EpochBytesAsClaimed ==
    EpochAnswerAtNoon
        => /\ s_out.value = ToU32(1704628800)
           /\ s_out.data = <<101, 149, 150, 128>>

(***************************************************************************)
(* C15, amended.  When the wall clock reads 2024-01-07T12:00:00Z,          *)
(* GetTimeSinceEpoch returns 1704628800 = 0x659A9240 and the response      *)
(* datagram is the four bytes 0x65 0x9A 0x92 0x40.                         *)
(***************************************************************************)
C15_EpochBytes ==
    EpochAnswerAtNoon
        => /\ s_out.value = ToU32(1704628800)
           /\ s_out.data = <<101, 154, 146, 64>>

C15_Witness ==
    /\ EpochAnswerAtNoon
    /\ received.ok /\ received.data[1] = GetTimeSinceEpoch
    /\ s_out.data = <<101, 154, 146, 64>>

(***************************************************************************)
(* C16.  As claimed: with the surrounding white space trimmed and the      *)
(* letters lower-cased, doha / 1, prague / 2, new-york / 3, berlin / 4     *)
(* normalize to "doha", "prague", "new-york", "berlin", every other input  *)
(* normalizes to "utc", and the client's normalizer agrees with the        *)
(* server's.  Refuted: "newyork" and "new york" normalize to "new-york".   *)
(***************************************************************************)
IsWhite(c) == c \in {9, 10, 11, 12, 13, 32}

LowerCase(c) == IF c \in 65..90 THEN c + 32 ELSE c

\* str without its surrounding white space, in lower case
TrimmedLower(str) ==
    LET inked == {k \in 1..Len(str) : ~IsWhite(str[k])}
    IN  IF inked = {} THEN <<>>
        ELSE LET first == CHOOSE k \in inked : \A j \in inked : k <= j
                 last == CHOOSE k \in inked : \A j \in inked : j <= k
             IN  [k \in 1..(last - first + 1) |-> LowerCase(str[first + k - 1])]

ListedCity(core) ==
    CASE core \in {Str_doha, <<49>>} -> Str_doha
      [] core \in {Str_prague, <<50>>} -> Str_prague
      [] core \in {Str_new_york, <<51>>} -> Str_new_york
      [] core \in {Str_berlin, <<52>>} -> Str_berlin
      [] OTHER -> Str_utc

AcceptedCity(core) ==
    CASE core \in {Str_doha, <<49>>} -> Str_doha
      [] core \in {Str_prague, <<50>>} -> Str_prague
      [] core \in {Str_new_york, Str_newyork, Str_new_space_york, <<51>>} ->
            Str_new_york
      [] core \in {Str_berlin, <<52>>} -> Str_berlin
      [] OTHER -> Str_utc

IsLeapYear(y) == (y % 4 = 0 /\ y % 100 # 0) \/ y % 400 = 0

DaysInMonth(y, m) ==
    CASE m \in {4, 6, 9, 11} -> 30
      [] m = 2 -> IF IsLeapYear(y) THEN 29 ELSE 28
      [] OTHER -> 31

\* 0 = Sunday .. 6 = Saturday; 1970-01-01 was a Thursday
WeekdayOf(y, m, d) == (DaysFromCivil(y, m, d) + 4) % 7

\* the days of month m of year y that fall on weekday wd
DaysOn(y, m, wd) == {d \in 1..DaysInMonth(y, m) : WeekdayOf(y, m, d) = wd}

LastSunday(y, m) == CHOOSE d \in DaysOn(y, m, 0) : \A e \in DaysOn(y, m, 0) : e <= d

NthSunday(y, m, n) ==
    CHOOSE d \in DaysOn(y, m, 0) :
        Cardinality({e \in DaysOn(y, m, 0) : e < d}) = n - 1

(***************************************************************************)
(* C17.  EU rule: at every UTC instant, is_dst_eu is true exactly when the *)
(* instant lies in [last Sunday of March 01:00 UTC, last Sunday of October *)
(* 01:00 UTC) of its year.                                                 *)
(***************************************************************************)
InWindowEU(t) ==
    \E y \in DstYears :
        /\ TimeOf(y, 3, LastSunday(y, 3), 3600) <= t
        /\ t < TimeOf(y, 10, LastSunday(y, 10), 3600)

C17_DstEU == d_pc \in {"eu", "us", "city"} => (d_eu <=> InWindowEU(d_now))

\* one minute after the March boundary of 2024, and the rule says summer
C17_Witness ==
    /\ d_pc = "eu" /\ d_now = TimeOf(2024, 3, 31, 3660) /\ d_eu

(***************************************************************************)
(* C18.  US rule: at every instant, read on the clock of the zone's base   *)
(* offset (UTC-5), is_dst_us_local_approx is true exactly when the reading *)
(* lies in [second Sunday of March 02:00, first Sunday of November 02:00)  *)
(* of its year.                                                            *)
(***************************************************************************)
InWindowUS(reading) ==
    \E y \in DstYears :
        /\ TimeOf(y, 3, NthSunday(y, 3, 2), 7200) <= reading
        /\ reading < TimeOf(y, 11, NthSunday(y, 11, 1), 7200)

C18_DstUS == d_pc \in {"us", "city"} => (d_us <=> InWindowUS(d_now - 5 * 3600))

\* one minute before the November boundary of 2024 on the UTC-5 clock, and
\* the rule still says summer
C18_Witness ==
    /\ d_pc = "us" /\ d_now - 5 * 3600 = TimeOf(2024, 11, 3, 7140) /\ d_us

(***************************************************************************)
(* C19.  City time: at every UTC instant and for every city string,        *)
(* time_in_city is the time of day of UTC + offset hours, modulo 24 h,     *)
(* with offset 0 for utc (and for strings that are not listed), +3 for     *)
(* doha, +1 or +2 for prague and berlin, -5 or -4 for new-york, the larger *)
(* exactly when the city's rule (EU, US on the UTC-5 clock) is in force.   *)
(***************************************************************************)
OffsetHours(city, t) ==
    CASE city = Str_doha -> 3
      [] city \in {Str_prague, Str_berlin} -> IF InWindowEU(t) THEN 2 ELSE 1
      [] city = Str_new_york -> IF InWindowUS(t - 5 * 3600) THEN -4 ELSE -5
      [] OTHER -> 0

Digits2(n) == <<48 + (n \div 10), 48 + (n % 10)>>

\* HH:MM:SS of second sod of the day
ClockFace(sod) ==
    Digits2(sod \div 3600) \o <<58>> \o Digits2((sod \div 60) % 60) \o <<58>>
        \o Digits2(sod % 60)

C19_CityTime ==
    d_pc = "city" =>
        d_time = ClockFace((d_now + OffsetHours(AcceptedCity(TrimmedLower(d_city)),
                                                d_now) * 3600) % 86400)

\* 2024-07-15T12:00:00Z in Berlin is 14:00:00
C19_Witness ==
    /\ d_pc = "city" /\ d_now = TimeOf(2024, 7, 15, 43200) /\ d_city = Str_berlin
    /\ d_time = <<49, 52, 58, 48, 48, 58, 48, 48>>

(***************************************************************************)
(* C20.  Weekday helpers: nth_weekday_of_month returns a day of the month  *)
(* that falls on the weekday and has exactly nth - 1 earlier days of the   *)
(* month on that weekday; last_weekday_of_month returns the day of the     *)
(* month on the weekday that no later day of the month on it follows.      *)
(***************************************************************************)
C20_WeekdayHelpers ==
    LET on == DaysOn(w_in.year, w_in.month, w_in.weekday)
    IN  /\ w_pc \in {"nth", "last"} =>
              /\ w_nth \in on
              /\ Cardinality({e \in on : e < w_nth}) = w_in.nth - 1
        /\ w_pc = "last" =>
              /\ w_last \in on
              /\ \A e \in on : e <= w_last

\* February 2024: the 4th Thursday is the 22nd, the last one the 29th
C20_Witness ==
    /\ w_pc = "last"
    /\ w_in = [year |-> 2024, month |-> 2, weekday |-> 4, nth |-> 4]
    /\ w_nth = 22 /\ w_last = 29

(***************************************************************************)
(* C5.  The client's integer receive fails whenever the received response  *)
(* is empty or longer than 4 bytes, and succeeds only for 1 to 4 bytes.    *)
(* Refuted by the code: an empty datagram is accepted and read as 0.       *)
(***************************************************************************)
C5_IntReceiveRejects ==
    (r_pc = "done" /\ r_kind = "u32" /\ ~r_in.err) =>
        (r_ok => Len(r_in.data) \in 1..4)

(***************************************************************************)
(* C6.  The client treats a received response as an error if and only if   *)
(* the datagram is empty or its first byte is 0xFF.                        *)
(* Refuted by the code: an empty datagram is accepted.                     *)
(***************************************************************************)
C6_ErrorIffEmptyOrFF ==
    (r_pc = "done" /\ r_kind = "vec" /\ ~r_in.err) =>
        (~r_ok <=> (r_in.data = <<>> \/ r_in.data[1] = 255))

(***************************************************************************)
(* Lap timer claims.  Times of the claims are whole seconds; replies are   *)
(* compared with the text the claims give.                                 *)
(***************************************************************************)
\* the whole seconds from instant t0 to instant t1 >= t0
WholeSeconds(t1, t0) == (t1 - t0) \div TicksPerSec

\* the text MM:SS of a number of seconds below 100 minutes
MMSS(sec) ==
    LET m == sec \div 60
        ss == sec % 60
    IN  <<48 + (m \div 10), 48 + (m % 10), 58, 48 + (ss \div 10), 48 + (ss % 10)>>

LapCalled == l_last.now >= 0

(***************************************************************************)
(* C7.  Lap cycle of one endpoint: a call with no timer pending (the first *)
(* call, or the call after an elapsed-time reply) returns "Timer started"; *)
(* the next call, at most 180 s later, returns the elapsed whole seconds   *)
(* as zero-padded MM:SS and removes the endpoint's entry.                  *)
(***************************************************************************)
C7_LapCycle ==
    LapCalled =>
        LET b == l_last.before
        IN  /\ (b = NoCall \/ b.reply # TimerStarted) =>
                   l_last.reply = TimerStarted
            /\ (b.reply = TimerStarted
                  /\ WholeSeconds(l_last.now, b.at) <= 180) =>
                   /\ l_last.reply = MMSS(WholeSeconds(l_last.now, b.at))
                   /\ \A e \in g_lap : e.key # l_last.key

\* t = 0 "Timer started", t = 150 "02:30", t = 400 "Timer started"
C7_Witness ==
    /\ l_last.now = 400 * TicksPerSec
    /\ l_last.reply = TimerStarted
    /\ l_last.before = [at |-> 150 * TicksPerSec, reply |-> MMSS(150)]

(***************************************************************************)
(* C8.  Lap expiry: when an endpoint's timer was started and its next call *)
(* comes more than 180 whole seconds later, the reply is "Timer started"   *)
(* and the table holds a new entry for it stamped with the call's instant. *)
(***************************************************************************)
C8_LapExpiry ==
    (LapCalled /\ l_last.before.reply = TimerStarted
       /\ WholeSeconds(l_last.now, l_last.before.at) > 180) =>
        /\ l_last.reply = TimerStarted
        /\ {e \in g_lap : e.key = l_last.key}
              = {[key |-> l_last.key, at |-> l_last.now]}

\* the next call comes 181 s after the start
C8_Witness ==
    /\ LapCalled
    /\ l_last.before.reply = TimerStarted
    /\ WholeSeconds(l_last.now, l_last.before.at) = 181
    /\ l_last.now - l_last.before.at = 181 * TicksPerSec
    /\ l_last.reply = TimerStarted

(***************************************************************************)
(* C9.  As claimed: every elapsed-time reply is below "03:00".  Refuted: a *)
(* call 180 s after the start is answered "03:00".                         *)
(***************************************************************************)
C9_BelowThreeMinutes ==
    (LapCalled /\ l_last.reply # TimerStarted) =>
        l_last.reply \in {MMSS(sec) : sec \in 0..179}

(***************************************************************************)
(* C9, amended.  Every elapsed-time reply reports at most 180 seconds: it  *)
(* is one of "00:00" .. "03:00".                                           *)
(***************************************************************************)
C9_AtMostThreeMinutes ==
    (LapCalled /\ l_last.reply # TimerStarted) =>
        l_last.reply \in {MMSS(sec) : sec \in 0..180}

C9_Witness ==
    /\ LapCalled
    /\ l_last.reply = MMSS(180)
    /\ l_last.before.reply = TimerStarted

(***************************************************************************)
(* C10.  Lap timer isolation: a call by endpoint a never creates an entry  *)
(* for another endpoint b and never changes b's entry; it removes b's      *)
(* entry exactly when that entry is more than 180 whole seconds old; and   *)
(* its reply is the one it would give were b's entry not in the table.     *)
(***************************************************************************)
C10_Isolation ==
    [][\A a \in Endpoints : LapCall(a) =>
         \A b \in Endpoints \ {a} :
            LET old == {e \in g_lap : e.key = b}
                new == {e \in g_lap' : e.key = b}
            IN  /\ new \subseteq old
                /\ \A e \in old :
                     (e \notin new) <=> (WholeSeconds(steady, e.at) > 180)
                /\ l_last'.reply =
                     MeasureTimeLapCall({e \in g_lap : e.key # b}, a, steady).reply
      ]_vars

\* endpoint (1,1) has just been told its elapsed time while (1,2), on the
\* same address, still has its timer running
C10_Witness ==
    /\ l_last.key = EndpointKey(1, 1)
    /\ l_last.reply = MMSS(150)
    /\ \E e \in g_lap : e.key = EndpointKey(1, 2) /\ e.at < l_last.now

(***************************************************************************)
(* C26.  Decoding yields exactly the non-empty runs of bytes that follow a *)
(* null byte, in order: no decoded parameter is the empty string, and a    *)
(* datagram of just the code byte has no parameters.                       *)
(* The runs are described here by their positions in the datagram (byte 1  *)
(* is the code byte), not by a scan.                                       *)
(***************************************************************************)
RunStarts(req) ==
    {a \in 3..Len(req) : req[a - 1] = 0 /\ req[a] # 0}

RunStop(req, a) ==
    CHOOSE b \in a..Len(req) :
        /\ \A j \in a..b : req[j] # 0
        /\ b = Len(req) \/ req[b + 1] = 0

NthStart(req, k) ==
    CHOOSE a \in RunStarts(req) :
        Cardinality({x \in RunStarts(req) : x < a}) = k - 1

NonEmptyRuns(req) ==
    [k \in 1..Cardinality(RunStarts(req)) |->
        SubSeq(req, NthStart(req, k), RunStop(req, NthStart(req, k)))]

C26_NonEmptyRuns ==
    c_pc = "decoded" =>
        /\ s_request.params = NonEmptyRuns(c_wire)
        /\ \A k \in 1..Len(s_request.params) : s_request.params[k] # <<>>
        /\ Len(c_wire) = 1 => s_request.params = <<>>

(***************************************************************************)
(* C27.  Right after a MeasureTimeLap call at the instant now (the latest  *)
(* call was made at the present reading of the clock), every entry of the  *)
(* table started at most 180 whole seconds before now, and an endpoint has *)
(* an entry exactly when its latest lap request was answered "Timer        *)
(* started" and no call since has purged it, that is, when that request is *)
(* at most 180 whole seconds old; an endpoint never has two entries.       *)
(***************************************************************************)
LapPending(key) ==
    /\ l_prev[key].reply = TimerStarted
    /\ WholeSeconds(steady, l_prev[key].at) <= 180

C27_TableAfterCall ==
    (LapCalled /\ l_last.now = steady) =>
        /\ \A e \in g_lap : e.at <= steady /\ WholeSeconds(steady, e.at) <= 180
        /\ \A key \in Endpoints :
              /\ Cardinality({e \in g_lap : e.key = key})
                    = IF LapPending(key) THEN 1 ELSE 0
              /\ LapPending(key) => [key |-> key, at |-> l_prev[key].at] \in g_lap

\* a call by one endpoint has just purged another endpoint's timer and kept
\* a third one's
C27_Witness ==
    /\ LapCalled /\ l_last.now = steady
    /\ \E k1, k2 \in Endpoints :
          /\ k1 # l_last.key /\ k2 # l_last.key /\ k1 # k2
          /\ l_prev[k1].reply = TimerStarted
          /\ WholeSeconds(steady, l_prev[k1].at) > 180
          /\ \A e \in g_lap : e.key # k1
          /\ LapPending(k2) /\ l_prev[k2].at < steady

(***************************************************************************)
(* C29.  For every uint32 v the server can send as an integer response,    *)
(* the client's receiveResponse(uint32_t&) applied to the datagram         *)
(* toBytes(v) succeeds and yields v, also when the first transmitted byte  *)
(* is 0xFF (255, 65280..65535, tick counts from 0xFF000000).               *)
(***************************************************************************)
C29_IntegerReceived ==
    i_pc = "received" => (i_recv.ok /\ i_recv.response = i_val)

(***************************************************************************)
(* C21.  calcAvgDifference returns the sum over i = 1..N-1 of              *)
(* sample[i] - sample[i-1], divided by N - 1, when there are N >= 2        *)
(* samples, and 0 when there are fewer.  The samples are uint32_t and so   *)
(* is each difference: sample[i] - sample[i-1] when sample[i] is the       *)
(* larger, 2^32 - (sample[i-1] - sample[i]) otherwise.  Consequence stated *)
(* with it: over samples that never decrease the sum is last - first.      *)
(***************************************************************************)
\* numbers as [hi, lo] = hi * 65536 + lo, lo in 0..65535
Big(hi, lo) == [hi |-> hi + (IF lo < 0 THEN -1 ELSE lo \div 65536), lo |-> lo % 65536]

U32Leq(a, b) == a.hi < b.hi \/ (a.hi = b.hi /\ a.lo <= b.lo)

\* a - b for b <= a
MinusBig(a, b) == Big(a.hi - b.hi, a.lo - b.lo)

Difference(a, b) ==
    IF U32Leq(b, a) THEN MinusBig(a, b)
    ELSE MinusBig(Big(65536, 0), MinusBig(b, a))

RECURSIVE SumOver(_, _)
\* the sum of Difference(samples[i], samples[i - 1]) over the indices in S
SumOver(samples, S) ==
    IF S = {} THEN Big(0, 0)
    ELSE LET i == CHOOSE x \in S : TRUE
             rest == SumOver(samples, S \ {i})
             d == Difference(samples[i], samples[i - 1])
         IN  Big(rest.hi + d.hi, rest.lo + d.lo)

NeverDecreases(samples) ==
    \A i \in 2..Len(samples) : U32Leq(samples[i - 1], samples[i])

C21_AverageDifference ==
    a_pc = "done" =>
        LET n == Len(a_samples)
        IN  /\ n < 2 => a_avg = [num |-> Big(0, 0), den |-> 1]
            /\ n >= 2 =>
                  /\ a_avg.den = n - 1
                  /\ a_avg.num = SumOver(a_samples, 2..n)
                  /\ NeverDecreases(a_samples) =>
                        a_avg.num = MinusBig(a_samples[n], a_samples[1])

\* three samples, the tick count wrapping between the second and the third
C21_Witness ==
    /\ a_pc = "done"
    /\ a_samples = <<U32(0, 65535), U32(65535, 65535), U32(0, 1)>>
    /\ a_avg = [num |-> Big(65535, 2), den |-> 2]

(***************************************************************************)
(* C22.  The server handles datagrams strictly one at a time: for each     *)
(* received datagram sendto is called at most once, the call is made       *)
(* during the dispatch of that datagram (so before the next one is         *)
(* received) and is addressed to its sender, and a datagram is received    *)
(* only when the dispatch of the one before is over; hence the responses   *)
(* leave in the order of the requests.                                     *)
(***************************************************************************)
C22_OneAtATime ==
    [][ /\ s_sends' <= 1
        /\ (received' # received \/ (s_pc # "dispatch" /\ s_pc' = "dispatch")) =>
              (s_pc = "receive" /\ s_sends' = 0)
        /\ s_sends' > s_sends =>
              /\ s_pc = "dispatch" /\ s_pc' = "receive"
              /\ received' = received
              /\ received.ok => (s_out'.sent /\ s_out'.to = received.from)
      ]_vars

\* the second sender has just been answered while a timer started earlier
\* by the first sender is pending
C22_Witness ==
    /\ s_pc = "receive" /\ s_sends = 1 /\ s_out.sent
    /\ received.ok /\ received.from = EndpointKey(1, 2)
    /\ s_out.to = EndpointKey(1, 2)
    /\ \E e \in g_lap : e.key = EndpointKey(1, 1)

(***************************************************************************)
(* C23.  After any failed request (receive error, unknown or malformed     *)
(* request, failed send) the server goes on: whenever an iteration of the  *)
(* loop is under way, the server eventually is back at its receive step.   *)
(***************************************************************************)
C23_ReturnsToReceive ==
    (s_pc = "dispatch") ~> (s_pc = "receive")

(***************************************************************************)
(* C24.  Every MeasureTimeLap call makes its sweep, its lookup and its     *)
(* insert or removal inside one critical section guarded by g_lap_mx:      *)
(* under any interleaving of concurrent calls, a thread between its sweep  *)
(* and its return holds the mutex, the table it looks up and updates is    *)
(* the table its own sweep left, and every change of the table is made by  *)
(* the thread that holds the mutex.                                        *)
(***************************************************************************)
InLapSection(t) == m_pc[t] \in {"sweep", "find", "insert", "erase", "unlock"}

C24_CriticalSection ==
    /\ [](\A t \in Threads :
            /\ InLapSection(t) => g_lap_mx = t
            /\ m_pc[t] \in {"find", "insert", "erase"} => g_lap = m_swept[t])
    /\ [][g_lap' # g_lap =>
            \E t \in Threads :
                /\ g_lap_mx = t /\ InLapSection(t)
                /\ m_pc'[t] # m_pc[t]
                /\ \A u \in Threads \ {t} : m_pc'[u] = m_pc[u] /\ ~InLapSection(u)
         ]_vars

\* one thread is between its sweep and its lookup while the other, called
\* for the same endpoint, waits for the mutex; a timer is pending
C24_Witness ==
    /\ m_pc[1] = "find" /\ m_pc[2] = "lock"
    /\ m_key[1] = m_key[2]
    /\ g_lap # {}

(***************************************************************************)
(* C28.  No client operation retries.  In every single-shot operation      *)
(* (every menu choice but 4 and 5) the client calls sendto exactly once    *)
(* and recv at most once: when the send fails the operation returns        *)
(* failure without receiving, and when the receive fails or the response   *)
(* is rejected it returns failure without sending again.                   *)
(***************************************************************************)
SingleShot == k_ops > 0 /\ OpKind(k_op.code) = "single"

C28_NoRetry ==
    /\ [](SingleShot =>
            /\ k_op.sends <= 1 /\ k_op.recvs <= 1
            /\ k_op.recvs = 1 => k_op.sends = 1
            /\ k_op.result # "running" => k_op.sends = 1
            /\ k_op.result = "send failed" => k_op.recvs = 0
            /\ k_op.result \in {"ok", "recv failed"} => k_op.recvs = 1
            /\ k_op.result = "running" <=> k_pc \in {"send", "recv"})
    /\ [][(SingleShot /\ k_pc = "send" /\ k_op' # k_op /\ net_req' = net_req) =>
             (k_pc' = "menu" /\ k_op'.result = "send failed" /\ k_op'.recvs = 0)
         ]_vars
    /\ [][(SingleShot /\ k_pc = "recv" /\ k_op' # k_op /\ k_op'.result # "ok") =>
             (k_pc' = "menu" /\ k_op'.result = "recv failed"
                /\ k_op'.sends = 1 /\ net_req' = net_req)
         ]_vars

\* the second operation is a single-shot one whose recv returned
\* SOCKET_ERROR; its request is still on its way
C28_Witness ==
    /\ SingleShot /\ k_ops = 2 /\ k_pc = "menu"
    /\ k_op.result = "recv failed" /\ k_op.sends = 1 /\ k_op.recvs = 1
    /\ k_last.by = 1 /\ net_errs = 1
    /\ Len(net_req) = 1

(***************************************************************************)
(* C30.  Against a server and a network that lose no datagram, every       *)
(* response datagram a client operation receives was sent in reply to a    *)
(* request of that same operation; in particular, after                    *)
(* GetClientToServerDelayEstimation or MeasureRTT has aborted part-way, no *)
(* later operation receives a response left over from it.                  *)
(***************************************************************************)
C30_OwnResponses ==
    net_lost = 0 => k_last.by = k_last.of

(***************************************************************************)
(* C25.  Delay estimation and RTT measurement have no timeout.  Such an    *)
(* operation returns success only when each of its receives, one per       *)
(* request, was given a datagram; while nothing waits in the socket the    *)
(* client stays in its receive, neither returning nor sending again; and   *)
(* an operation entered with nothing on its way and nothing in the socket  *)
(* never returns success once one of its datagrams is lost.                *)
(***************************************************************************)
Burst == k_ops > 0 /\ OpKind(k_op.code) \in {"delay", "rtt"}

C31_ElapsedNotNegative ==
    /\ \A t \in Threads :
          m_pc[t] = "erase" =>
              /\ m_it[t].at <= m_now[t]
              /\ ElapsedSeconds(m_now[t], m_it[t].at) >= 0
    /\ \A e \in g_lap : e.at <= steady

(***************************************************************************)
(* C32.  Every GetTimeWithoutDateInCity request the client puts on the     *)
(* wire is [0x0C][0x00]<token> with <token> one of doha, prague, new-york, *)
(* berlin, utc; the server decodes it to exactly one parameter, which is   *)
(* not empty, and its dispatch does not index an empty parameter list.     *)
(***************************************************************************)
WireTokens == {Str_doha, Str_prague, Str_new_york, Str_berlin, Str_utc}

CityRequestWellFormed(d) ==
    /\ \E tok \in WireTokens : d = <<12, 0>> \o tok
    /\ Len(decode(d).params) = 1
    /\ decode(d).params[1] # <<>>
    /\ decode(d).params[1] = SubSeq(d, 3, Len(d))
    /\ dispatchCase(decode(d), ClientEndpoint, host, g_lap, steady).kind = "string"

C32_CityRequestForm ==
    \A k \in 1..Len(net_req) :
        (net_req[k].data # <<>> /\ net_req[k].data[1] = 12) =>
            CityRequestWellFormed(net_req[k].data)

\* the request for New York is on its way
C32_Witness ==
    /\ k_op.code = GetTimeWithoutDateInCity /\ k_pc = "recv"
    /\ Len(net_req) = 1
    /\ net_req[1].data = <<12, 0>> \o Str_new_york


(***************************************************************************)
(* C33: the server's normalizer is closed and idempotent: its result is   *)
(* one of "doha", "prague", "new-york", "berlin", "utc", and applying it  *)
(* to its own result changes nothing; so the server's result for the      *)
(* token the client normalized equals its result for the raw input, and   *)
(* the lookup of the normalized token in kCitiesExt always finds an entry.*)
(***************************************************************************)
FiveTokens == {Str_doha, Str_prague, Str_new_york, Str_berlin, Str_utc}

C33_ClosedIdempotent ==
    /\ (n_pc \in {"server", "both", "again"} => n_server \in FiveTokens)
    /\ (n_pc = "again" =>
           /\ n_again.of_server = n_server
           /\ n_again.of_client = n_server
           /\ n_again.found)

\* "New York" typed by the user: the client sends "new-york", and the
\* server's normalizer leaves that token as it is and finds its entry
C33_Witness ==
    /\ n_pc = "again"
    /\ n_in = UpperFirst(Str_new_space_york)
    /\ n_client = Str_new_york
    /\ n_again = [of_server |-> Str_new_york, of_client |-> Str_new_york,
                  found |-> TRUE]


(***************************************************************************)
(* C34: GetClientToServerDelayEstimation makes all its sends before its    *)
(* first receive; in MeasureRTT every send is followed by its own receive  *)
(* before the next send; in both, the first send or receive that fails     *)
(* ends the operation with failure, and the operation makes no send or     *)
(* receive after that.                                                     *)
(***************************************************************************)
IsBurst(op) == OpKind(op.code) \in {"delay", "rtt"}

Failed(op) == op.result \in {"send failed", "recv failed"}

BurstOrder ==
    /\ OpKind(k_op.code) = "delay" =>
          /\ k_op.sends <= BurstLen /\ k_op.recvs <= BurstLen
          /\ (k_op.recvs > 0 \/ k_pc = "recv") => k_op.sends = BurstLen
    /\ OpKind(k_op.code) = "rtt" =>
          /\ k_op.recvs <= k_op.sends /\ k_op.sends <= k_op.recvs + 1
          /\ k_op.sends <= BurstLen
          /\ k_pc = "send" => k_op.sends = k_op.recvs
          /\ k_pc = "recv" => k_op.sends = k_op.recvs + 1

\* a send of the running operation that put nothing on the wire, or a
\* receive of it that got an error or a rejected datagram
SendFails == k_op'.sends = k_op.sends + 1 /\ k_ops' = k_ops /\ net_req' = net_req
ReceiveFails ==
    /\ k_op'.recvs = k_op.recvs + 1 /\ k_ops' = k_ops
    /\ ~OpReceiveOk(k_op.code, RecvItem(net_resp))

AbortsAtFirstFailure ==
    IsBurst(k_op) =>
       /\ SendFails => (k_op'.result = "send failed" /\ k_pc' = "menu")
       /\ ReceiveFails => (k_op'.result = "recv failed" /\ k_pc' = "menu")
       /\ Failed(k_op) =>
             /\ k_pc = "menu"
             /\ k_ops' = k_ops => k_op' = k_op

C34_BurstOrderAndAbort == [](BurstOrder) /\ [][AbortsAtFirstFailure]_vars

\* the delay estimation has sent its whole burst, received one response
\* and then failed on its second receive
C34_Witness ==
    /\ k_op.code = GetClientToServerDelayEstimation
    /\ k_op.sends = BurstLen /\ k_op.recvs = 2
    /\ k_op.result = "recv failed" /\ k_pc = "menu"


(***************************************************************************)
(* C35.  Each difference sample[i] - sample[i-1] of calcAvgDifference is   *)
(* taken modulo 2^32, so it is never negative: the sum of the differences  *)
(* is last - first plus 2^32 for every sample that is smaller than the     *)
(* one before it.  Over samples that never decrease the sum is             *)
(* last - first; a counter that wraps from 2^32 - 1 to 1 contributes the   *)
(* step 2; any other drop by d contributes 2^32 - d.                       *)
(***************************************************************************)
\* how many samples are smaller than their predecessor
Drops(samples) ==
    Cardinality({i \in 2..Len(samples) : ~U32Leq(samples[i - 1], samples[i])})

C35_UnsignedDifferences ==
    (a_pc = "done" /\ Len(a_samples) >= 2) =>
        LET n == Len(a_samples)
            first == a_samples[1]
            last == a_samples[n]
        IN  /\ a_avg.num.hi >= 0
            /\ a_avg.num.hi < 65536 * (n - 1)
            /\ a_avg.num = Big(last.hi - first.hi + 65536 * Drops(a_samples),
                               last.lo - first.lo)
            /\ (n = 2 /\ first = U32(65535, 65535) /\ last = U32(0, 1)) =>
                   a_avg.num = Big(0, 2)
            /\ (n = 2 /\ ~U32Leq(first, last)) =>
                   a_avg.num = MinusBig(Big(65536, 0), MinusBig(first, last))

\* 65536 followed by 1: a drop by 65535 that contributes 2^32 - 65535
C35_Witness ==
    /\ a_pc = "done"
    /\ a_samples = <<U32(1, 0), U32(0, 1)>>
    /\ a_avg = [num |-> Big(65535, 1), den |-> 1]


(***************************************************************************)
(* C36.  When recvfrom fails, the request that run hands to dispatch is    *)
(* the default-constructed one, code Error and no parameters; dispatch     *)
(* then sends no datagram and leaves the lap table as it was, and the      *)
(* loop is back at its receive step.                                       *)
(***************************************************************************)
C36_FailedReceive ==
    [][ (s_pc = "dispatch" /\ ~received.ok) =>
           /\ request = [code |-> Error, params |-> <<>>]
           /\ s_sends = 0 /\ s_sends' = 0
           /\ s_out' = NoDatagram
           /\ g_lap' = g_lap
           /\ s_pc' \in {"dispatch", "receive"}
      ]_vars

\* an iteration whose receive failed is over, and the timer a client
\* started earlier is still pending
C36_Witness ==
    /\ s_pc = "receive" /\ received = NoRecv
    /\ s_sends = 0 /\ s_out = NoDatagram
    /\ \E e \in g_lap : e.key = EndpointKey(1, 1)


(***************************************************************************)
(* C37.  decode terminates on every datagram; every element of req it     *)
(* evaluates lies inside the vector and i never passes req.size(); the     *)
(* bytes between the code byte and the first null byte have no effect on   *)
(* the result; and the number of parameters is at most the number of null  *)
(* bytes after byte 0.                                                     *)
(***************************************************************************)
\* the null bytes after byte 0, as 1-based positions
NullsAfterCode(req) == {k \in 2..Len(req) : req[k] = 0}

\* req without the bytes between the code byte and the first null byte
WithoutLeadingBytes(req) ==
    IF req = <<>> THEN <<>>
    ELSE IF NullsAfterCode(req) = {} THEN <<req[1]>>
    ELSE LET first == CHOOSE k \in NullsAfterCode(req) :
                          \A j \in NullsAfterCode(req) : k <= j
         IN  <<req[1]>> \o SubSeq(req, first, Len(req))

ScanInBounds ==
    /\ p_reads \subseteq 0..(Len(p_req) - 1)
    /\ p_i <= IF p_req = <<>> THEN 1 ELSE Len(p_req)
    /\ p_pc = "inner" => p_start <= p_i
    /\ p_pc = "done" =>
          /\ p_result = decode(p_req)
          /\ p_result = decode(WithoutLeadingBytes(p_req))
          /\ Len(p_result.params) <= Cardinality(NullsAfterCode(p_req))

C37_DecodeTerminatesInBounds == [](ScanInBounds) /\ <>(p_pc = "done")

\* code byte 1, a stray 0xFF, a null byte, the parameter <<1>> and a
\* trailing null byte: one parameter for two null bytes
C37_Witness ==
    /\ p_pc = "done"
    /\ p_req = <<1, 255, 0, 1, 0>>
    /\ p_result.params = << <<1>> >>
    /\ p_reads = 0..4

====
